---- MODULE Spec2Model ----
(***************************************************************************)
(* RepoAnalyzerCore of the repotxt extension: the exclusion resolver, the  *)
(* manual override store, the range algebra and the report generator.      *)
(*                                                                         *)
(* A path is the sequence of its segments below the file-system root, so   *)
(* "/w/pkg/docs" is <<"w", "pkg", "docs">> and "/" is <<>>.  The strings   *)
(* kept in the rule sets are either a path or a path followed by path.sep; *)
(* an entry [path |-> p, sep |-> b] is the string of p, with a trailing    *)
(* separator when b.                                                       *)
(***************************************************************************)
EXTENDS Integers, Sequences, FiniteSets, TLC

VARIABLES
    fs,                 \* file system: kind of every path ("dir", "file", "none")
    config,             \* the 'repotxt' configuration and the ignore-file lines
    autoExcludes,       \* Set<string>
    manualIncludes,     \* Set<string>
    manualExcludes,     \* Set<string>
    partialIncludes,    \* Map<string, Range[]>
    hasIncludesCache,   \* Map<string, boolean>
    hasPartialsCache,   \* Map<string, boolean>
    workspaceState,     \* the persisted session state (context.workspaceState)
    ranges,             \* argument of a range-algebra call
    ret,                \* value returned by the most recent call that returns data
    lineCounts,         \* file system: number of lines of every file
    fileStatsCache,     \* Map<string, { lines, chars }>
    timers,             \* pending setTimeout timers: handle -> time left
    refreshTimeout,     \* NodeJS.Timeout | undefined (0)
    burst,              \* what the debounce callback did since the present burst of
                        \* file events began, and the time since its last event
    workspaceOpen,      \* whether this.workspaceRoot is defined
    fileWatcher,        \* whether this.fileWatcher is set up and not disposed
    unreadable,         \* file system: the files fs.readFileSync throws for
    rebuilds,           \* the calls of recalculateAutoExclusions waiting for findFiles
    report,             \* the calls of generateReport in flight and the microtasks queued
    log                 \* what the most recent handler wrote and fired, when a
                        \* listener is attached to the memento and the emitters

vars == <<fs, config, autoExcludes, manualIncludes, manualExcludes, partialIncludes,
          hasIncludesCache, hasPartialsCache, workspaceState, ranges, ret,
          lineCounts, fileStatsCache, timers, refreshTimeout, burst,
          workspaceOpen, fileWatcher, unreadable, rebuilds, report, log>>

\* the file contents, the debounce timer, the open folder, its watcher and the
\* rebuilds in flight
watch == <<lineCounts, timers, refreshTimeout, burst, workspaceOpen, fileWatcher,
           unreadable, rebuilds>>

(***************************************************************************)
(* Bounds of the model.                                                    *)
(***************************************************************************)
\* lines a selection of the editor can touch (1-based line numbers 1..MaxLine)
MaxLine == 2
\* selections handed to one addRanges / removeRanges call
MaxSels == 1
\* paths handed to one toggleExcludeMultiple call
MaxBatch == 2
\* ranges in the argument of a range-algebra call
MaxRanges == 3
\* line numbers in the argument of a range-algebra call
MaxRangeLine == 4
\* lines of a watched file, and lines its editor selections can touch
MaxFileLines == 4
\* file events of one burst
MaxEvents == 3
\* milliseconds by which the clock advances in one step
TimeStep == 150
\* calls of recalculateAutoExclusions waiting for findFiles at the same time
MaxRebuilds == 2
\* handlers run in the task that has called generateReport(), after the call
MaxSameTask == 1
\* reports in flight at a time
MaxReports == 1
\* microtasks of a report that run before another process changes the disk
MaxJobs == 4

(***************************************************************************)
(* The directory tree.                                                     *)
(***************************************************************************)
workspaceRoot == <<"w">>
Pkg    == <<"w", "pkg">>
Build  == <<"w", "pkg", "build">>
Docs   == <<"w", "pkg", "docs">>
Readme == <<"w", "pkg", "docs", "readme.md">>
Other  == <<"w", "pkg", "docs", "other.md">>

\* every path the model speaks about: the tree, the workspace root and "/"
TreePaths == {Pkg, Build, Docs, Readme, Other}
Paths == TreePaths \cup {workspaceRoot, <<>>}

\* the fixed part of the tree; Build is a file, a directory or missing
FsWith(buildKind) ==
    [p \in Paths |->
        IF p \in {<<>>, workspaceRoot, Pkg, Docs} THEN "dir"
        ELSE IF p = Build THEN buildKind
        ELSE "file"]

\* names in the order of String.prototype.localeCompare
NameOrder == <<"build", "docs", "other.md", "pkg", "readme.md", "w">>
NameRank(name) == CHOOSE i \in 1..Len(NameOrder) : NameOrder[i] = name

\* path.extname of a name of the tree
extname(name) ==
    IF name \in {"readme.md", "other.md"} THEN ".md" ELSE ""

\* path.basename
basename(p) == p[Len(p)]

\* path.dirname: the parent, and "/" for "/"
dirname(p) == IF p = <<>> THEN <<>> ELSE SubSeq(p, 1, Len(p) - 1)

\* path.relative(workspaceRoot, fullPath) for a path below the root
relative(fullPath) == SubSeq(fullPath, Len(workspaceRoot) + 1, Len(fullPath))

Plain(p) == [path |-> p, sep |-> FALSE]
WithSep(p) == [path |-> p, sep |-> TRUE]
Entries == {[path |-> p, sep |-> b] : p \in Paths, b \in BOOLEAN}

IsPrefix(d, p) == Len(d) <= Len(p) /\ SubSeq(p, 1, Len(d)) = d

\* String.prototype.startsWith: the string of entry e starts with dirPath + path.sep
StartsWithSep(e, dirPath) ==
    /\ IsPrefix(dirPath, e.path)
    /\ (Len(e.path) > Len(dirPath) \/ e.sep)

\* set.has(p) || set.has(p + path.sep)
HasEither(set, p) == Plain(p) \in set \/ WithSep(p) \in set

(***************************************************************************)
(* Exclusion resolver.                                                     *)
(***************************************************************************)
RECURSIVE check(_, _, _)
check(inc, exc, p) ==
    IF HasEither(inc, p) THEN "false"
    ELSE IF HasEither(exc, p) THEN "true"
    ELSE IF dirname(p) = p THEN "null"
    ELSE check(inc, exc, dirname(p))

RECURSIVE autoCheck(_, _)
autoCheck(auto, p) ==
    IF HasEither(auto, p) THEN "true"
    ELSE IF dirname(p) = p THEN "null"
    ELSE autoCheck(auto, dirname(p))

\* the historical rule order: any include on the chain beats every exclude
RECURSIVE AnyOnChain(_, _)
AnyOnChain(set, p) ==
    \/ HasEither(set, p)
    \/ (dirname(p) # p /\ AnyOnChain(set, dirname(p)))

EffectiveIncludeFirst(auto, inc, exc, fullPath) ==
    IF AnyOnChain(inc, fullPath) THEN FALSE
    ELSE IF AnyOnChain(exc, fullPath) THEN TRUE
    ELSE autoCheck(auto, fullPath) = "true"

\* the automatic rules asked first, the manual rules when none applies
EffectiveAutoFirst(auto, inc, exc, fullPath) ==
    IF autoCheck(auto, fullPath) = "true" THEN TRUE
    ELSE check(inc, exc, fullPath) = "true"

EffectivelyExcluded(auto, inc, exc, fullPath) ==
    LET manualRule == check(inc, exc, fullPath)
    IN  IF manualRule # "null" THEN manualRule = "true"
        ELSE autoCheck(auto, fullPath) = "true"

isPathEffectivelyExcluded(fullPath) ==
    EffectivelyExcluded(autoExcludes, manualIncludes, manualExcludes, fullPath)

\* a catch that takes the missing path for a directory
addPathToSetAsDir(fsNow, fullPath, set) ==
    IF fsNow[fullPath] # "file" THEN set \cup {WithSep(fullPath)}
    ELSE set \cup {Plain(fullPath)}

\* addPathToSet: statSync throws on a missing path and the plain string is added
addPathToSet(fsNow, fullPath, set) ==
    IF fsNow[fullPath] = "dir" THEN set \cup {WithSep(fullPath)}
    ELSE set \cup {Plain(fullPath)}

RemovePlainOnly(fullPath, set) == set \ {Plain(fullPath)}

removePathFromSet(fullPath, set) == set \ {Plain(fullPath), WithSep(fullPath)}

KeepAll(set, fullPathWithSep) == set

\* set.forEach(p => { if (p.startsWith(fullPathWithSep)) set.delete(p) })
PurgeBelow(set, fullPath) == {e \in set : ~StartsWithSep(e, fullPath)}

\* const isCurrentlyExcluded = manualExcludes.has(fullPath): the path's own rule only
ExcludedByOwnRule(auto, inc, exc, fullPath) == HasEither(exc, fullPath)

\* const isCurrentlyExcluded = this.isPathEffectivelyExcluded(fullPath)
isCurrentlyExcluded(auto, inc, exc, fullPath) ==
    EffectivelyExcluded(auto, inc, exc, fullPath)

\* The body shared by toggleExclude and by the forEach of toggleExcludeMultiple:
\* the two manual sets after one path has been toggled.
toggleOne(fsNow, auto, inc, exc, fullPath) ==
    LET isDir == fsNow[fullPath] = "dir"
        wasExcluded == isCurrentlyExcluded(auto, inc, exc, fullPath)
        inc1 == removePathFromSet(fullPath, inc)
        exc1 == removePathFromSet(fullPath, exc)
    IN  IF wasExcluded
        THEN [inc |-> addPathToSet(fsNow, fullPath, inc1),
              exc |-> IF isDir THEN PurgeBelow(exc1, fullPath) ELSE exc1]
        ELSE [inc |-> IF isDir THEN PurgeBelow(inc1, fullPath) ELSE inc1,
              exc |-> addPathToSet(fsNow, fullPath, exc1)]

\* the forEach taking the paths from the last to the first
RECURSIVE toggleEachBackwards(_, _, _, _, _)
toggleEachBackwards(fsNow, auto, inc, exc, fullPaths) ==
    IF fullPaths = <<>> THEN [inc |-> inc, exc |-> exc]
    ELSE LET one == toggleOne(fsNow, auto, inc, exc, fullPaths[Len(fullPaths)])
         IN  toggleEachBackwards(fsNow, auto, one.inc, one.exc,
                                 SubSeq(fullPaths, 1, Len(fullPaths) - 1))

\* fullPaths.forEach(...) of toggleExcludeMultiple, in list order
RECURSIVE toggleEach(_, _, _, _, _)
toggleEach(fsNow, auto, inc, exc, fullPaths) ==
    IF fullPaths = <<>> THEN [inc |-> inc, exc |-> exc]
    ELSE LET one == toggleOne(fsNow, auto, inc, exc, Head(fullPaths))
         IN  toggleEach(fsNow, auto, one.inc, one.exc, Tail(fullPaths))

(***************************************************************************)
(* Range algebra.  A range is [start |-> s, end |-> e], lines 1-based.     *)
(***************************************************************************)
\* Array.prototype.sort((a, b) => a.start - b.start): stable, by start
RECURSIVE InsertByStart(_, _)
InsertByStart(sorted, r) ==
    IF sorted = <<>> THEN <<r>>
    ELSE IF Head(sorted).start <= r.start
         THEN <<Head(sorted)>> \o InsertByStart(Tail(sorted), r)
         ELSE <<r>> \o sorted

\* the list taken as it comes, without the sort
InputOrder(rs) == rs

RECURSIVE SortByStart(_)
SortByStart(rs) ==
    IF rs = <<>> THEN <<>>
    ELSE InsertByStart(SortByStart(SubSeq(rs, 1, Len(rs) - 1)), rs[Len(rs)])

Max(a, b) == IF a >= b THEN a ELSE b
Min(a, b) == IF a <= b THEN a ELSE b

\* the loop merging overlapping ranges only, not adjacent ones
RECURSIVE MergeLoopOverlapOnly(_, _, _)
MergeLoopOverlapOnly(sorted, i, merged) ==
    IF i > Len(sorted) THEN merged
    ELSE LET last == merged[Len(merged)]
         IN  IF sorted[i].start <= last.end
             THEN MergeLoopOverlapOnly(sorted, i + 1,
                      [merged EXCEPT ![Len(merged)].end = Max(last.end, sorted[i].end)])
             ELSE MergeLoopOverlapOnly(sorted, i + 1, Append(merged, sorted[i]))

\* the loop of mergeRanges from index i on, merged being the accumulated list
RECURSIVE MergeLoop(_, _, _)
MergeLoop(sorted, i, merged) ==
    IF i > Len(sorted) THEN merged
    ELSE LET last == merged[Len(merged)]
         IN  IF sorted[i].start <= last.end + 1
             THEN MergeLoop(sorted, i + 1,
                      [merged EXCEPT ![Len(merged)].end = Max(last.end, sorted[i].end)])
             ELSE MergeLoop(sorted, i + 1, Append(merged, sorted[i]))

\* the same loop comparing with the previous input range instead of the
\* accumulated one
RECURSIVE MergeLoopPrev(_, _, _)
MergeLoopPrev(sorted, i, merged) ==
    IF i > Len(sorted) THEN merged
    ELSE LET last == merged[Len(merged)]
         IN  IF sorted[i].start <= sorted[i - 1].end + 1
             THEN MergeLoopPrev(sorted, i + 1,
                      [merged EXCEPT ![Len(merged)].end = Max(last.end, sorted[i].end)])
             ELSE MergeLoopPrev(sorted, i + 1, Append(merged, sorted[i]))

mergeRangesPrev(rs) ==
    IF Len(rs) = 0 THEN <<>>
    ELSE LET sorted == SortByStart(rs)
         IN  MergeLoopPrev(sorted, 2, <<sorted[1]>>)

mergeRanges(rs) ==
    IF Len(rs) = 0 THEN <<>>
    ELSE LET sorted == SortByStart(rs)
         IN  MergeLoop(sorted, 2, <<sorted[1]>>)

\* the argument of mergeRanges after the call.  [...ranges] copies the array, not
\* the range objects: last.end = Math.max(...) writes into the object that opens a
\* run of merged ranges, which is an element of the argument.  `at` is the index
\* of a range object in the argument.  On a stored list, which is a merged list,
\* the call writes nothing; addRanges passes a list it builds and stores the value
\* returned in its place.
mergeRangesWrites(rs) ==
    IF Len(rs) = 0 THEN rs
    ELSE LET tagged == [i \in 1..Len(rs) |->
                           [start |-> rs[i].start, end |-> rs[i].end, at |-> i]]
             sorted == SortByStart(tagged)
             merged == MergeLoop(sorted, 2, <<sorted[1]>>)
         IN  [i \in 1..Len(rs) |->
                 IF \E k \in 1..Len(merged) : merged[k].at = i
                 THEN LET k == CHOOSE k \in 1..Len(merged) : merged[k].at = i
                      IN  [start |-> rs[i].start, end |-> merged[k].end]
                 ELSE rs[i]]

\* the left piece ending on the first subtracted line instead of before it
subtractRangeUpTo(r, s) ==
    IF s.end < r.start \/ s.start > r.end THEN <<r>>
    ELSE IF s.start <= r.start /\ s.end >= r.end THEN <<>>
    ELSE IF s.start > r.start /\ s.end < r.end
         THEN << [start |-> r.start, end |-> s.start],
                 [start |-> s.end + 1, end |-> r.end] >>
    ELSE IF s.start <= r.start THEN << [start |-> s.end + 1, end |-> r.end] >>
    ELSE << [start |-> r.start, end |-> s.start] >>

subtractRange(r, s) ==
    IF s.end < r.start \/ s.start > r.end THEN <<r>>
    ELSE IF s.start <= r.start /\ s.end >= r.end THEN <<>>
    ELSE IF s.start > r.start /\ s.end < r.end
         THEN << [start |-> r.start, end |-> s.start - 1],
                 [start |-> s.end + 1, end |-> r.end] >>
    ELSE IF s.start <= r.start THEN << [start |-> s.end + 1, end |-> r.end] >>
    ELSE << [start |-> r.start, end |-> s.start - 1] >>

\* current.flatMap(r => this.subtractRange(r, sel))
RECURSIVE FlatSubtract(_, _)
FlatSubtract(current, sel) ==
    IF current = <<>> THEN <<>>
    ELSE subtractRange(Head(current), sel) \o FlatSubtract(Tail(current), sel)

\* the earlier removeRanges: a stored range that meets a selection is dropped whole
DropOverlapping(current, sels) ==
    LET Meets(r) == \E k \in 1..Len(sels) :
                        \/ r.start >= sels[k].start /\ r.start <= sels[k].end
                        \/ r.end >= sels[k].start /\ r.end <= sels[k].end
                        \/ r.start <= sels[k].start /\ r.end >= sels[k].end
        Stays(r) == ~Meets(r)
    IN  SelectSeq(current, Stays)

\* for (const sel of selectionsAsRanges) current = current.flatMap(...)
RECURSIVE SubtractAll(_, _)
SubtractAll(current, sels) ==
    IF sels = <<>> THEN current
    ELSE SubtractAll(FlatSubtract(current, Head(sels)), Tail(sels))

\* selections.map(sel => ({start: sel.start.line + 1, end: sel.end.line + 1}))
SelectionsToRanges(selections) ==
    [i \in 1..Len(selections) |->
        [start |-> selections[i].startLine + 1, end |-> selections[i].endLine + 1]]

(***************************************************************************)
(* Maps.                                                                   *)
(***************************************************************************)
EmptyMap == [k \in {} |-> FALSE]
MapSet(m, k, v) == [x \in (DOMAIN m) \cup {k} |-> IF x = k THEN v ELSE m[x]]
MapDelete(m, k) == [x \in (DOMAIN m) \ {k} |-> m[x]]
MapHas(m, k) == k \in DOMAIN m

(***************************************************************************)
(* Auto-exclusion set.  A pattern is [segs |-> tokens, slash |-> b]: its   *)
(* '/'-separated segments and whether it ends with '/'.  A token is        *)
(* [star |-> FALSE, text |-> name] for a literal name and                  *)
(* [star |-> TRUE, text |-> ext] for "*" followed by the extension ext.    *)
(***************************************************************************)
Lit(name) == [star |-> FALSE, text |-> name]
StarExt(ext) == [star |-> TRUE, text |-> ext]

MatchName(tok, name) == IF tok.star THEN extname(name) = tok.text ELSE name = tok.text

\* files vscode.workspace.findFiles can return: files of the workspace that are
\* not below a node_modules directory (the exclude glob '**/node_modules/**')
FindableFiles(fsNow) ==
    {p \in TreePaths : fsNow[p] = "file" /\ IsPrefix(workspaceRoot, p)
                       /\ \A i \in 1..Len(p) - 1 : p[i] # "node_modules"}

\* findFiles(globPattern): a glob is matched against the whole workspace-relative
\* path, "*" staying inside one segment; `${pattern}**` matches every file below
findFiles(fsNow, pattern) ==
    {p \in FindableFiles(fsNow) :
        LET rel == relative(p)
        IN  /\ IF pattern.slash THEN Len(rel) > Len(pattern.segs)
                                ELSE Len(rel) = Len(pattern.segs)
            /\ \A i \in 1..Len(pattern.segs) : MatchName(pattern.segs[i], rel[i])}

\* path.join(workspaceRoot, pattern.replace(/\/$/, '')), when it exists
directPath(fsNow, pattern) ==
    LET p == workspaceRoot \o [i \in 1..Len(pattern.segs) |-> pattern.segs[i].text]
    IN  IF (\A i \in 1..Len(pattern.segs) : ~pattern.segs[i].star)
           /\ p \in Paths /\ fsNow[p] # "none"
        THEN {p} ELSE {}

\* one iteration of the loop of processPatterns: the paths added for one pattern
PatternPaths(fsNow, pattern) == findFiles(fsNow, pattern) \cup directPath(fsNow, pattern)

\* the lines of the ignore files that are kept as patterns
IgnorePatterns(cfg) ==
    {cfg.ignoreFileLines[i].pattern :
        i \in {j \in 1..Len(cfg.ignoreFileLines) : cfg.ignoreFileLines[j].kind = "pattern"}}

patternsToProcess(cfg) ==
    (IF cfg.autoExcludeEnabled THEN cfg.autoExcludePatterns ELSE {})
    \cup (IF cfg.respectIgnoreFiles THEN IgnorePatterns(cfg) ELSE {})

\* findFiles(`**/*.{ext,...}`)
BinaryFiles(fsNow, cfg) ==
    {p \in FindableFiles(fsNow) : extname(basename(p)) \in cfg.binaryFileExtensions}

\* the set a complete run of recalculateAutoExclusions leaves
recalculateAutoExclusions(fsNow, cfg) ==
    LET found == UNION {PatternPaths(fsNow, pat) : pat \in patternsToProcess(cfg)}
        binary == IF cfg.excludeBinaryFiles THEN BinaryFiles(fsNow, cfg) ELSE {}
    IN  {IF fsNow[p] = "dir" THEN WithSep(p) ELSE Plain(p) : p \in found \cup binary}

PatDocs == [segs |-> <<Lit("pkg"), Lit("docs")>>, slash |-> FALSE]
PatBuild == [segs |-> <<Lit("pkg"), Lit("build")>>, slash |-> FALSE]
PatDocsSlash == [segs |-> <<Lit("pkg"), Lit("docs")>>, slash |-> TRUE]
PatStarMd == [segs |-> <<StarExt(".md")>>, slash |-> FALSE]

CfgPlain ==
    [autoExcludeEnabled |-> TRUE, autoExcludePatterns |-> {},
     respectIgnoreFiles |-> TRUE, ignoreFileLines |-> <<>>,
     excludeBinaryFiles |-> TRUE, binaryFileExtensions |-> {}]
\* no pattern, no ignore file and no search for binary files: a rebuild waits
\* for no search of findFiles
CfgBare == [CfgPlain EXCEPT !.excludeBinaryFiles = FALSE]
CfgDocs ==
    [autoExcludeEnabled |-> TRUE, autoExcludePatterns |-> {PatDocs, PatStarMd},
     respectIgnoreFiles |-> TRUE,
     ignoreFileLines |-> << [kind |-> "comment", pattern |-> PatDocsSlash],
                            [kind |-> "blank", pattern |-> PatDocsSlash],
                            [kind |-> "pattern", pattern |-> PatBuild] >>,
     excludeBinaryFiles |-> TRUE, binaryFileExtensions |-> {".bin"}]
Configs == {CfgPlain, CfgDocs}

\* "*.md" and the bare directory name "docs", as in ["node_modules", "*.log"]
PatBareDocs == [segs |-> <<Lit("docs")>>, slash |-> FALSE]
CfgGlob ==
    [autoExcludeEnabled |-> TRUE, autoExcludePatterns |-> {PatStarMd, PatBareDocs},
     respectIgnoreFiles |-> TRUE, ignoreFileLines |-> <<>>,
     excludeBinaryFiles |-> TRUE, binaryFileExtensions |-> {}]

(***************************************************************************)
(* Visual exclusion and its two caches.  A traversal reads a cache entry   *)
(* when it is there and computes (and stores) the value when it is not;    *)
(* the rule sets do not change during a traversal, so every lookup equals  *)
(* the lookup against the cache the traversal started with.                *)
(***************************************************************************)
\* the scan looking at the entries directly inside dirPath only
ContainsManualIncludesDirect(incCache, dirPath) ==
    IF MapHas(incCache, dirPath) THEN incCache[dirPath]
    ELSE \E e \in manualIncludes : e.path # dirPath /\ dirname(e.path) = dirPath

folderContainsManualIncludes(incCache, dirPath) ==
    IF MapHas(incCache, dirPath) THEN incCache[dirPath]
    ELSE \E e \in manualIncludes : StartsWithSep(e, dirPath)

folderContainsPartialIncludes(partCache, dirPath) ==
    IF MapHas(partCache, dirPath) THEN partCache[dirPath]
    ELSE \E k \in DOMAIN partialIncludes : StartsWithSep(Plain(k), dirPath)

\* the version that starts with: if (this.partialIncludes.has(fullPath)) return false
VisuallyExcludedPartialFirst(incCache, partCache, fullPath) ==
    IF MapHas(partialIncludes, fullPath) THEN FALSE
    ELSE IF ~isPathEffectivelyExcluded(fullPath) THEN FALSE
    ELSE IF fs[fullPath] = "dir"
            /\ (folderContainsManualIncludes(incCache, fullPath)
                \/ folderContainsPartialIncludes(partCache, fullPath))
         THEN FALSE
    ELSE TRUE

\* isPathVisuallyExcluded, reading the given caches; statSync throws on a
\* missing path and the catch falls through to return true
VisuallyExcluded(incCache, partCache, fullPath) ==
    IF ~isPathEffectivelyExcluded(fullPath) THEN FALSE
    ELSE IF fs[fullPath] = "dir"
            /\ (folderContainsManualIncludes(incCache, fullPath)
                \/ folderContainsPartialIncludes(partCache, fullPath))
         THEN FALSE
    ELSE TRUE

isPathVisuallyExcluded(fullPath) ==
    VisuallyExcluded(hasIncludesCache, hasPartialsCache, fullPath)

\* the caches after one call of isPathVisuallyExcluded(fullPath): statSync looks
\* at what the path is now, and the second scan runs when the first finds nothing
IncCacheAfterVisual(incCache, fullPath) ==
    IF isPathEffectivelyExcluded(fullPath) /\ fs[fullPath] = "dir"
    THEN MapSet(incCache, fullPath, folderContainsManualIncludes(incCache, fullPath))
    ELSE incCache

PartCacheAfterVisual(incCache, partCache, fullPath) ==
    IF /\ isPathEffectivelyExcluded(fullPath) /\ fs[fullPath] = "dir"
       /\ ~folderContainsManualIncludes(incCache, fullPath)
    THEN MapSet(partCache, fullPath, folderContainsPartialIncludes(partCache, fullPath))
    ELSE partCache

(***************************************************************************)
(* Report generator.                                                       *)
(***************************************************************************)
\* fs.readdirSync(dirPath)
Children(dirPath) == {p \in TreePaths : dirname(p) = dirPath /\ fs[p] # "none"}

\* a comparator that looks at the names alone
KeyNameOnly(p) == NameRank(basename(p))

\* the comparator of getFlatStructure: directories first, then localeCompare
KeyDirsFirst(p) ==
    (IF fs[p] = "dir" THEN 0 ELSE Len(NameOrder)) + NameRank(basename(p))

\* the comparator of generateFileContentBlocks: localeCompare only
KeyByName(p) == NameRank(basename(p))

RECURSIVE SortedEntries(_, _)
SortedEntries(set, dirsFirst) ==
    IF set = {} THEN <<>>
    ELSE LET Key(p) == IF dirsFirst THEN KeyDirsFirst(p) ELSE KeyByName(p)
             first == CHOOSE p \in set : \A q \in set : Key(p) <= Key(q)
         IN  <<first>> \o SortedEntries(set \ {first}, dirsFirst)

\* an entry of the structure listing: the workspace-relative path, '/'-joined,
\* with a trailing '/' when dir
ListingEntry(fullPath, dir) == [rel |-> relative(fullPath), dir |-> dir]

\* listing decided by the effective verdict alone
StructureListsEffective(incCache, partCache, fullPath) ==
    ~isPathEffectivelyExcluded(fullPath)

\* whether getFlatStructure pushes the entry on structureList
StructureLists(incCache, partCache, fullPath) ==
    ~VisuallyExcluded(incCache, partCache, fullPath)

\* whether getFlatStructure recurses into the directory
StructureDescends(incCache, partCache, fullPath) ==
    \/ ~VisuallyExcluded(incCache, partCache, fullPath)
    \/ folderContainsManualIncludes(incCache, fullPath)
    \/ folderContainsPartialIncludes(partCache, fullPath)

\* recursion decided by the directory's own verdict alone
ContentDescendsEffective(incCache, partCache, fullPath) ==
    ~isPathEffectivelyExcluded(fullPath)

\* whether generateFileContentBlocks recurses into the directory
ContentDescends(incCache, partCache, fullPath) ==
    \/ ~isPathEffectivelyExcluded(fullPath)
    \/ folderContainsManualIncludes(incCache, fullPath)
    \/ folderContainsPartialIncludes(partCache, fullPath)

\* the entries of fs.readdirSync(dirPath, { withFileTypes: true }) after the sort:
\* the kind of an entry is the one it has when the directory is read
Dirents(dirPath, dirsFirst) ==
    LET entries == SortedEntries(Children(dirPath), dirsFirst)
    IN  [i \in 1..Len(entries) |-> [path |-> entries[i], dir |-> fs[entries[i]] = "dir"]]

\* the two caches after folderContainsManualIncludes(dirPath) and
\* folderContainsPartialIncludes(dirPath) have both been called
IncludesCached(incCache, dirPath) ==
    IF MapHas(incCache, dirPath) THEN incCache
    ELSE MapSet(incCache, dirPath, folderContainsManualIncludes(incCache, dirPath))

PartialsCached(partCache, dirPath) ==
    IF MapHas(partCache, dirPath) THEN partCache
    ELSE MapSet(partCache, dirPath, folderContainsPartialIncludes(partCache, dirPath))

(***************************************************************************)
(* A call of generateReport in flight is a record: phase, "structure"      *)
(* while getFlatStructure runs, "blocks" while generateFileContentBlocks   *)
(* runs and "throwing" while an exception goes up the calls that await;    *)
(* stack, the calls of the traversal that have not returned,               *)
(* outermost first, each the entries its loop has not visited yet;         *)
(* structure and blocks, what has been pushed so far; inc and part, the    *)
(* two caches as the part running reads and fills them; alone, whether no  *)
(* other handler has run and the disk has not changed since the call       *)
(* began.  An operator below runs the call from where it waits to its next *)
(* await.                                                                  *)
(***************************************************************************)
\* path.relative(this.workspaceRoot!, fullPath) throws when the folder has been
\* closed, and readdirSync throws for a directory that is gone: the promise of
\* the call that threw is rejected, and awaiting are the calls that wait, each
\* for the one above it
Throwing(m, awaiting) == [m EXCEPT !.phase = "throwing", !.stack = awaiting]

\* the calls below the one running
Callers(m) == SubSeq(m.stack, 1, Len(m.stack) - 1)

\* the exception comes out of an await: it leaves the call that waited, whose
\* promise is rejected in turn; with no call of the traversal left it leaves
\* generateReport
Rejected(m) ==
    IF m.stack = <<>> THEN [m EXCEPT !.phase = "rejected"]
    ELSE Throwing(m, Callers(m))

\* getFlatStructure from the top of the stack up to the await it reaches: the
\* return of a call, for which its caller waits, or an exception
RECURSIVE getFlatStructure(_)
getFlatStructure(m) ==
    LET depth == Len(m.stack)
        frame == m.stack[depth]
    IN  IF frame = <<>> THEN [m EXCEPT !.stack = Callers(m)]
        ELSE LET fullPath == Head(frame).path
                 lists == StructureLists(m.inc, m.part, fullPath)
                 visited == [m EXCEPT !.stack[depth] = Tail(frame)]
             IN  IF Head(frame).dir
                 THEN LET cached == [visited EXCEPT
                                        !.inc = IncludesCached(m.inc, fullPath),
                                        !.part = PartialsCached(m.part, fullPath)]
                          pushed == IF lists
                                    THEN [cached EXCEPT !.structure =
                                             Append(@, ListingEntry(fullPath, TRUE))]
                                    ELSE cached
                      IN  IF lists /\ ~workspaceOpen
                          THEN Throwing(cached, Callers(cached))
                          ELSE IF ~StructureDescends(m.inc, m.part, fullPath)
                          THEN getFlatStructure(pushed)
                          ELSE IF fs[fullPath] # "dir"
                          THEN Throwing(pushed, pushed.stack)
                          ELSE getFlatStructure(
                                   [pushed EXCEPT !.stack = Append(@, Dirents(fullPath, TRUE))])
                 ELSE LET cached == [visited EXCEPT
                                        !.inc = IncCacheAfterVisual(m.inc, fullPath),
                                        !.part = PartCacheAfterVisual(m.inc, m.part, fullPath)]
                      IN  IF ~lists THEN getFlatStructure(cached)
                          ELSE IF ~workspaceOpen
                          THEN Throwing(cached, Callers(cached))
                          ELSE getFlatStructure(
                                   [cached EXCEPT !.structure =
                                       Append(@, ListingEntry(fullPath, FALSE))])

\* content.split('\n').length of a readable file
LineCount(filePath) == lineCounts[filePath]

\* the loop running to range.end, not to Math.min(range.end, lines.length)
RangeLinesUnclipped(range, lineCount) ==
    LET validStart == Max(0, range.start - 1)
    IN  [k \in 1..Max(0, range.end - validStart) |-> validStart + k]

\* the 1-based numbers of the lines pushed by the loop over one merged range
RangeLines(range, lineCount) ==
    LET validStart == Max(0, range.start - 1)
        validEnd == Min(range.end, lineCount)
    IN  [k \in 1..Max(0, validEnd - validStart) |-> validStart + k]

RECURSIVE SelectedLines(_, _)
SelectedLines(mergedRanges, lineCount) ==
    IF mergedRanges = <<>> THEN <<>>
    ELSE RangeLines(Head(mergedRanges), lineCount)
         \o SelectedLines(Tail(mergedRanges), lineCount)

\* '[Unable to read file content]', returned by the catch of the two readers
UnableToRead == [kind |-> "unable", lines |-> <<>>]

\* a catch that returns the empty string
CatchReadEmpty(filePath) == [kind |-> "lines", lines |-> <<>>]

\* catch { return '[Unable to read file content]' }
CatchRead(filePath) == UnableToRead

\* fs.readFileSync(filePath, 'utf8') throws: the path is gone or is a directory
\* when it is read, or the file cannot be read
ReadFails(filePath) == fs[filePath] # "file" \/ filePath \in unreadable

\* a line stands for its number
readFileContentWithRanges(filePath, rs) ==
    IF ReadFails(filePath) THEN CatchRead(filePath)
    ELSE [kind |-> "lines", lines |-> SelectedLines(mergeRanges(rs), LineCount(filePath))]

\* the extension is looked at before the file is read
readFileContent(filePath) ==
    IF extname(basename(filePath)) \in config.binaryFileExtensions
    THEN [kind |-> "binary", lines |-> <<>>]
    ELSE IF ReadFails(filePath) THEN CatchRead(filePath)
    ELSE [kind |-> "lines", lines |-> [k \in 1..LineCount(filePath) |-> k]]

\* `File: ${relativePath} (lines ${rangeDescriptions})\nContent: ${content}\n`:
\* the ranges are described after the reader has returned, as mergeRanges has
\* left them when the file could be read
FileBlock(fullPath) ==
    LET rs == IF MapHas(partialIncludes, fullPath) THEN partialIncludes[fullPath] ELSE <<>>
    IN  IF Len(rs) > 0
        THEN [rel |-> relative(fullPath),
              lines |-> IF ReadFails(fullPath) THEN rs ELSE mergeRangesWrites(rs),
              content |-> readFileContentWithRanges(fullPath, rs)]
        ELSE [rel |-> relative(fullPath), lines |-> <<>>,
              content |-> readFileContent(fullPath)]

\* generateFileContentBlocks from the top of the stack up to the await it
\* reaches: the read of a file, or the return of a call.  The file is read and
\* its ranges are taken when the reader is called; the block is pushed when the
\* loop goes on.
RECURSIVE generateFileContentBlocks(_)
generateFileContentBlocks(m) ==
    LET depth == Len(m.stack)
        frame == m.stack[depth]
    IN  IF frame = <<>> THEN [m EXCEPT !.stack = Callers(m)]
        ELSE LET fullPath == Head(frame).path
                 visited == [m EXCEPT !.stack[depth] = Tail(frame)]
             IN  IF Head(frame).dir
                 THEN LET cached == [visited EXCEPT
                                        !.inc = IncludesCached(m.inc, fullPath),
                                        !.part = PartialsCached(m.part, fullPath)]
                      IN  IF ~ContentDescends(m.inc, m.part, fullPath)
                          THEN generateFileContentBlocks(cached)
                          ELSE IF fs[fullPath] # "dir"
                          THEN Throwing(cached, cached.stack)
                          ELSE generateFileContentBlocks(
                                   [cached EXCEPT !.stack = Append(@, Dirents(fullPath, FALSE))])
                 ELSE IF isPathEffectivelyExcluded(fullPath)
                      THEN generateFileContentBlocks(visited)
                      ELSE IF ~workspaceOpen
                      THEN Throwing(visited, Callers(visited))
                      ELSE [visited EXCEPT !.blocks = Append(@, FileBlock(fullPath))]

Void == [kind |-> "void"]

\* if (!this.workspaceRoot) return 'No workspace folder opened'
NoWorkspace == [kind |-> "message", text |-> "No workspace folder opened"]

\* the promise generateReport() has returned, not settled yet
Pending == [kind |-> "promise"]

\* generateReport() up to its first await: hasIncludesCache.clear(), then
\* getFlatStructure(this.workspaceRoot, structureList)
generateReportBegin(partCache, alone) ==
    getFlatStructure([phase |-> "structure", stack |-> <<Dirents(workspaceRoot, TRUE)>>,
                      structure |-> <<>>, blocks |-> <<>>,
                      inc |-> EmptyMap, part |-> partCache, alone |-> alone])

\* generateReport() from the await it waits at to the next one: the traversal
\* goes on, or an exception goes up one call; after the await of getFlatStructure
\* generateFileContentBlocks is called, whose readdirSync throws when the folder
\* has been closed; after the await of generateFileContentBlocks the report is
\* returned
generateReportPart(m) ==
    IF m.phase = "throwing" THEN Rejected(m)
    ELSE IF m.phase = "structure"
    THEN IF m.stack # <<>> THEN getFlatStructure(m)
         ELSE IF ~workspaceOpen THEN Throwing(m, <<>>)
         ELSE generateFileContentBlocks(
                  [m EXCEPT !.phase = "blocks", !.stack = <<Dirents(workspaceRoot, FALSE)>>])
    ELSE IF m.stack # <<>> THEN generateFileContentBlocks(m)
         ELSE [m EXCEPT !.phase = "returned"]

\* the call has returned its report or its promise is rejected
Over(m) == m.phase \in {"returned", "rejected"}

\* what the promise of generateReport() settles with
Reported(m) ==
    IF m.phase = "rejected" THEN [kind |-> "rejected"]
    ELSE [kind |-> "report", name |-> basename(workspaceRoot),
          structure |-> m.structure, blocks |-> m.blocks, alone |-> m.alone]

RECURSIVE Completed(_)
Completed(m) == IF Over(m) THEN m ELSE Completed(generateReportPart(m))

\* generateReport() with a workspace open and nothing else running before the
\* report is returned
generateReport == Reported(Completed(generateReportBegin(hasPartialsCache, TRUE)))

\* no report is in flight: called, generateReport() has been called in the task
\* running; others, the handlers that have run in that task since; runs, the
\* calls in flight; queue, the microtasks queued, first in first out, each the
\* next part of a report or of a call of recalculateAutoExclusions
NoReport == [called |-> FALSE, others |-> 0, runs |-> <<>>, queue |-> <<>>]

(***************************************************************************)
(* Session state.                                                          *)
(***************************************************************************)
\* the saveState of the versions without partial selections
SessionStateRulesOnly(inc, exc, partial) ==
    [defined |-> TRUE, includes |-> inc, excludes |-> exc, partialIncludes |-> EmptyMap]

\* what saveState writes under 'repotxt.sessionState'
SessionState(inc, exc, partial) ==
    [defined |-> TRUE, includes |-> inc, excludes |-> exc, partialIncludes |-> partial]

\* workspaceState.get(...) of a project opened for the first time: undefined
NoSessionState ==
    [defined |-> FALSE, includes |-> {}, excludes |-> {}, partialIncludes |-> EmptyMap]

\* session states a former session can have left: none, and a rule on Build
\* written while Build was a directory
PersistedStates ==
    { NoSessionState,
      SessionState({}, {WithSep(Build)}, EmptyMap) }

(***************************************************************************)
(* Inputs.                                                                 *)
(***************************************************************************)
\* paths the tree view and the webview hand to the toggle commands
TogglePaths == TreePaths

\* files the editor commands are run on
RangeFiles == {Readme}

\* paths of a multiple selection
BatchPaths == {Pkg, Readme, Build}

\* nodes the views ask the verdict of
QueryPaths == {Pkg, Docs}

\* a vscode.Selection, by its first and last (0-based) line
Selections ==
    {[startLine |-> a, endLine |-> b] : a \in 0..MaxLine - 1, b \in 0..MaxLine - 1}
        \cap {sel \in [startLine : 0..MaxLine - 1, endLine : 0..MaxLine - 1] :
                 sel.startLine <= sel.endLine}

SeqsUpTo(S, n) == UNION {[1..k -> S] : k \in 1..n}

\* the selections of an editor never overlap
Disjoint(seq) ==
    \A i, j \in 1..Len(seq) :
        i # j => seq[i].endLine < seq[j].startLine \/ seq[j].endLine < seq[i].startLine

SelectionLists == {seq \in SeqsUpTo(Selections, MaxSels) : Disjoint(seq)}

Distinct(seq) == \A i, j \in 1..Len(seq) : i # j => seq[i] # seq[j]

PathLists == {seq \in SeqsUpTo(BatchPaths, MaxBatch) : Distinct(seq)}

(***************************************************************************)
(* The debounce timer.  Time is counted in milliseconds and advances in    *)
(* steps of TimeStep; a pending timer is known by its handle and the time  *)
(* left until it is due.                                                   *)
(***************************************************************************)
\* setTimeout(..., 300)
Delay == 300

\* no file event has arrived yet
NoBurst == [events |-> 0, rebuilds |-> 0, refreshes |-> 0, elapsed |-> Delay]

\* refreshTimeout is undefined, no timer is pending and no report is in flight
InitTimer ==
    /\ report = NoReport
    /\ timers = EmptyMap
    /\ refreshTimeout = 0
    /\ burst = NoBurst

\* debouncedRefresh that leaves the pending timer alone
KeepTimeout(ts, handle) == ts

\* clearTimeout(handle): nothing happens for undefined or for a timer that has run
clearTimeout(ts, handle) == MapDelete(ts, handle)

\* the handle setTimeout returns: one no pending timer has
NewHandle(ts) == CHOOSE h \in 1..Cardinality(DOMAIN ts) + 1 : h \notin DOMAIN ts

\* debouncedRefresh(): the pending timer is cleared and a new one is set.  An
\* event that finds a timer pending belongs to the burst of the event that set it.
debouncedRefresh ==
    LET cleared == clearTimeout(timers, refreshTimeout)
        handle == NewHandle(cleared)
    IN  /\ timers' = MapSet(cleared, handle, Delay)
        /\ refreshTimeout' = handle
        /\ burst' = IF DOMAIN timers # {}
                    THEN [burst EXCEPT !.events = Min(MaxEvents, @ + 1), !.elapsed = 0]
                    ELSE [events |-> 1, rebuilds |-> 0, refreshes |-> 0, elapsed |-> 0]

\* hasPartialIncludes(filePath): this.partialIncludes.has(filePath)
hasPartialIncludes(filePath) == MapHas(partialIncludes, filePath)

\* validateRanges(filePath) for a readable file of lineCount lines: the map stored
validateRanges(partial, filePath, lineCount) ==
    IF ~MapHas(partial, filePath) \/ Len(partial[filePath]) = 0 THEN partial
    ELSE LET rs == partial[filePath]
             Valid(r) == r.start <= lineCount
             validRanges == SelectSeq(rs, Valid)
         IN  IF Len(validRanges) # Len(rs)
             THEN MapSet(partial, filePath,
                      [i \in 1..Len(validRanges) |->
                          [start |-> validRanges[i].start,
                           end |-> Min(validRanges[i].end, lineCount)]])
             ELSE partial

(***************************************************************************)
(* What a handler writes and fires.  The memento and the emitters are      *)
(* listened to in some specifications only; without a listener a write     *)
(* and a fired event leave no trace.                                       *)
(***************************************************************************)
\* nobody listens
LogOff == [on |-> FALSE, saves |-> 0, changes |-> 0, nodes |-> <<>>]

\* a listener that has seen nothing yet
LogOn == [on |-> TRUE, saves |-> 0, changes |-> 0, nodes |-> <<>>]

\* the handler called workspaceState.update `saves` times, fired onDidChange
\* `changes` times and fired onDidUpdateNodes once for every payload of `nodes`
Logged(saves, changes, nodes) ==
    log' = IF log.on
           THEN [on |-> TRUE, saves |-> saves, changes |-> changes, nodes |-> nodes]
           ELSE log

\* saveState(): the write happens when a workspace is open
Saves == IF workspaceOpen THEN 1 ELSE 0

\* a folder is open, every file is readable, no rebuild is waiting, nobody listens
InitHost ==
    /\ workspaceOpen = TRUE
    /\ fileWatcher = TRUE
    /\ unreadable = {}
    /\ rebuilds = <<>>
    /\ log = LogOff

\* isPathVisuallyExcluded(fullPath) for the given rule sets and caches
VisuallyExcludedWith(fsNow, auto, inc, exc, partial, incCache, partCache, fullPath) ==
    LET hasIncludes == IF MapHas(incCache, fullPath) THEN incCache[fullPath]
                       ELSE \E e \in inc : StartsWithSep(e, fullPath)
        hasPartials == IF MapHas(partCache, fullPath) THEN partCache[fullPath]
                       ELSE \E k \in DOMAIN partial : StartsWithSep(Plain(k), fullPath)
    IN  IF ~EffectivelyExcluded(auto, inc, exc, fullPath) THEN FALSE
        ELSE IF fsNow[fullPath] = "dir" /\ (hasIncludes \/ hasPartials) THEN FALSE
        ELSE TRUE

\* the NodeState a command fires for a path after it has changed the rule sets to
\* inc, exc and partial and before refresh() clears the caches: a cache entry
\* filled before the command is read as it is
NodeState(inc, exc, partial, fullPath, isPartial) ==
    [path |-> fullPath,
     excluded |-> VisuallyExcludedWith(fs, autoExcludes, inc, exc, partial,
                                       hasIncludesCache, hasPartialsCache, fullPath),
     partial |-> isPartial]

\* the loop of updateParentStats: the ancestors pushed, nearest first; root is
\* this.workspaceRoot ?? ''
RECURSIVE ParentsWithinRoot(_)
ParentsWithinRoot(current) ==
    IF current = dirname(current) THEN <<>>
    ELSE IF workspaceOpen /\ ~IsPrefix(workspaceRoot, current) THEN <<>>
    ELSE <<current>> \o ParentsWithinRoot(dirname(current))

\* updateParentStats(childPath): the payload of onDidUpdateNodes
updateParentStats(inc, exc, partial, childPath) ==
    LET paths == (IF fs[childPath] = "dir" THEN <<childPath>> ELSE <<>>)
                 \o ParentsWithinRoot(dirname(childPath))
    IN  [i \in 1..Len(paths) |->
            NodeState(inc, exc, partial, paths[i], MapHas(partial, paths[i]))]

\* the loop of toggleExcludeMultiple over the parents of one path
RECURSIVE ParentsBelowRoot(_)
ParentsBelowRoot(parent) ==
    IF parent = dirname(parent) \/ (workspaceOpen /\ parent = workspaceRoot) THEN <<>>
    ELSE <<parent>> \o ParentsBelowRoot(dirname(parent))

\* Set.prototype.add for every item, the set being kept in insertion order
RECURSIVE AddAll(_, _)
AddAll(seq, items) ==
    IF items = <<>> THEN seq
    ELSE AddAll(IF \E i \in 1..Len(seq) : seq[i] = Head(items)
                THEN seq ELSE Append(seq, Head(items)),
                Tail(items))

\* affectedParents when the forEach of toggleExcludeMultiple has run
RECURSIVE affectedParents(_)
affectedParents(fullPaths) ==
    IF fullPaths = <<>> THEN <<>>
    ELSE AddAll(affectedParents(SubSeq(fullPaths, 1, Len(fullPaths) - 1)),
                ParentsBelowRoot(dirname(fullPaths[Len(fullPaths)])))

\* the payloads fired: updateParentStats fires when its payload is not empty
NonEmptyPayloads(payloads) ==
    LET Fires(payload) == Len(payload) > 0
    IN  SelectSeq(payloads, Fires)

(***************************************************************************)
(* Initial state: initialize() has run for the workspace: loadState, a     *)
(* complete recalculateAutoExclusions, refresh.                            *)
(***************************************************************************)
Init ==
    /\ fs \in {FsWith(k) : k \in {"none", "file", "dir"}}
    /\ config \in Configs
    /\ workspaceState \in PersistedStates
    /\ manualIncludes = workspaceState.includes
    /\ manualExcludes = workspaceState.excludes
    /\ partialIncludes = workspaceState.partialIncludes
    /\ autoExcludes = recalculateAutoExclusions(fs, config)
    /\ hasIncludesCache = EmptyMap
    /\ hasPartialsCache = EmptyMap
    /\ ranges = <<>>
    /\ ret = Void
    /\ fileStatsCache = EmptyMap
    /\ lineCounts = [p \in TreePaths |-> MaxLine]
    /\ InitTimer
    /\ InitHost

\* saveState() followed by refresh(), for the given sets
SaveAndRefresh(inc, exc, partial) ==
    /\ workspaceState' = IF workspaceOpen THEN SessionState(inc, exc, partial)
                         ELSE workspaceState
    /\ hasIncludesCache' = EmptyMap
    /\ hasPartialsCache' = EmptyMap
    /\ fileStatsCache' = EmptyMap

ToggleExclude(fullPath) ==
    LET after == toggleOne(fs, autoExcludes, manualIncludes, manualExcludes, fullPath)
    IN  /\ manualIncludes' = after.inc
        /\ manualExcludes' = after.exc
        /\ SaveAndRefresh(after.inc, after.exc, partialIncludes)
        /\ Logged(Saves, 1,
                  NonEmptyPayloads(<< updateParentStats(after.inc, after.exc,
                                                        partialIncludes, fullPath) >>))
        /\ ret' = Void
        /\ UNCHANGED <<fs, config, autoExcludes, partialIncludes, ranges>>
        /\ UNCHANGED watch

ToggleExcludeMultiple(fullPaths) ==
    LET after == toggleEach(fs, autoExcludes, manualIncludes, manualExcludes, fullPaths)
        parents == affectedParents(fullPaths)
    IN  /\ manualIncludes' = after.inc
        /\ manualExcludes' = after.exc
        /\ SaveAndRefresh(after.inc, after.exc, partialIncludes)
        /\ Logged(Saves, 1,
                  NonEmptyPayloads([i \in 1..Len(parents) |->
                      updateParentStats(after.inc, after.exc, partialIncludes,
                                        parents[i])]))
        /\ ret' = Void
        /\ UNCHANGED <<fs, config, autoExcludes, partialIncludes, ranges>>
        /\ UNCHANGED watch

\* the resetExclusions of the version before, which leaves the selections
ResetExclusionsRulesOnly ==
    /\ manualIncludes' = {}
    /\ manualExcludes' = {}
    /\ SaveAndRefresh({}, {}, partialIncludes)
    /\ Logged(Saves, 1, <<>>)
    /\ ret' = Void
    /\ UNCHANGED <<fs, config, autoExcludes, partialIncludes, ranges>>
    /\ UNCHANGED watch

\* what every variable but ret and log is made of
core == <<fs, config, autoExcludes, manualIncludes, manualExcludes, partialIncludes,
          hasIncludesCache, hasPartialsCache, fileStatsCache, workspaceState, ranges>>

\* if (!this.workspaceRoot) return
ResetExclusions ==
    IF ~workspaceOpen
    THEN /\ Logged(0, 0, <<>>)
         /\ ret' = Void
         /\ UNCHANGED core
         /\ UNCHANGED watch
    ELSE /\ manualIncludes' = {}
         /\ manualExcludes' = {}
         /\ partialIncludes' = EmptyMap
         /\ SaveAndRefresh({}, {}, EmptyMap)
         /\ Logged(Saves, 1, <<>>)
         /\ ret' = Void
         /\ UNCHANGED <<fs, config, autoExcludes, ranges>>
         /\ UNCHANGED watch

\* the node a range command fires for its file
FileNode(partial, filePath, isPartial) ==
    NodeState(manualIncludes, manualExcludes, partial, filePath, isPartial)

\* the tail shared by the range commands: the map is stored, saved, the node of
\* the file is fired, refresh() is called
StoreRanges(partial, nodes) ==
    /\ partialIncludes' = partial
    /\ SaveAndRefresh(manualIncludes, manualExcludes, partial)
    /\ Logged(Saves, 1, nodes)
    /\ ret' = Void
    /\ UNCHANGED <<fs, config, autoExcludes, manualIncludes, manualExcludes, ranges>>
    /\ UNCHANGED watch

AddRanges(filePath, selections) ==
    LET existingRanges ==
            IF MapHas(partialIncludes, filePath) THEN partialIncludes[filePath] ELSE <<>>
        allRanges == existingRanges \o SelectionsToRanges(selections)
        stored == MapSet(partialIncludes, filePath, mergeRanges(allRanges))
    IN  StoreRanges(stored, << <<FileNode(stored, filePath, TRUE)>> >>)

RemoveRanges(filePath, selections) ==
    IF ~MapHas(partialIncludes, filePath) \/ Len(partialIncludes[filePath]) = 0
    THEN /\ Logged(0, 0, <<>>)
         /\ UNCHANGED <<core, ret>>
         /\ UNCHANGED watch
    ELSE LET current == SubtractAll(partialIncludes[filePath],
                                    SelectionsToRanges(selections))
             stored == IF Len(current) = 0 THEN MapDelete(partialIncludes, filePath)
                       ELSE MapSet(partialIncludes, filePath, current)
         IN  StoreRanges(stored,
                 << <<FileNode(stored, filePath, MapHas(stored, filePath))>> >>)

ClearRanges(filePath) ==
    LET stored == MapDelete(partialIncludes, filePath)
    IN  StoreRanges(stored, << <<FileNode(stored, filePath, FALSE)>> >>)

ClearAllRanges == StoreRanges(EmptyMap, <<>>)

\* the views ask for the verdict of a node (getTreeItem, 'getNodeStates')
QueryVisual(fullPath) ==
    /\ hasIncludesCache' = IncCacheAfterVisual(hasIncludesCache, fullPath)
    /\ hasPartialsCache' = PartCacheAfterVisual(hasIncludesCache, hasPartialsCache, fullPath)
    /\ Logged(0, 0, <<>>)
    /\ ret' = Void
    /\ UNCHANGED <<fs, config, autoExcludes, manualIncludes, manualExcludes,
                   partialIncludes, workspaceState, ranges, fileStatsCache>>
    /\ UNCHANGED watch

\* loadState(): what the persisted state gives the three collections
loadState(state) ==
    [includes |-> IF state.defined THEN state.includes ELSE {},
     excludes |-> IF state.defined THEN state.excludes ELSE {},
     partialIncludes |-> IF state.defined THEN state.partialIncludes ELSE EmptyMap]

\* fileWatcher.onDidChange: the file has been written with lineCount lines;
\* validateRanges(uri.fsPath), then debouncedRefresh()
\* the watcher exists while a folder is open; readFileSync throwing, the catch of
\* validateRanges leaves the selection alone
OnDidChange(filePath, lineCount) ==
    LET validated == IF ReadFails(filePath) THEN partialIncludes
                     ELSE validateRanges(partialIncludes, filePath, lineCount)
    IN  /\ fileWatcher
        /\ fs[filePath] = "file"
        /\ lineCounts' = [lineCounts EXCEPT ![filePath] = lineCount]
        /\ partialIncludes' = validated
        /\ workspaceState' = IF validated # partialIncludes
                             THEN SessionState(manualIncludes, manualExcludes, validated)
                             ELSE workspaceState
        /\ debouncedRefresh
        /\ Logged(IF validated # partialIncludes THEN 1 ELSE 0, 0, <<>>)
        /\ ret' = Void
        /\ UNCHANGED <<fs, config, autoExcludes, manualIncludes, manualExcludes,
                       hasIncludesCache, hasPartialsCache, fileStatsCache, ranges>>
        /\ UNCHANGED <<workspaceOpen, fileWatcher, unreadable, rebuilds>>

\* fileWatcher.onDidCreate: the path has appeared as a file or a directory
OnDidCreate(fullPath, kind) ==
    /\ fileWatcher
    /\ fs[fullPath] = "none"
    /\ fs' = [fs EXCEPT ![fullPath] = kind]
    /\ debouncedRefresh
    /\ Logged(0, 0, <<>>)
    /\ ret' = Void
    /\ UNCHANGED <<config, autoExcludes, manualIncludes, manualExcludes,
                   partialIncludes, hasIncludesCache, hasPartialsCache,
                   fileStatsCache, workspaceState, ranges, lineCounts>>
    /\ UNCHANGED <<workspaceOpen, fileWatcher, unreadable, rebuilds>>

\* fileWatcher.onDidDelete: the path is gone
OnDidDelete(fullPath) ==
    /\ fileWatcher
    /\ fs[fullPath] # "none"
    /\ fs' = [fs EXCEPT ![fullPath] = "none"]
    /\ debouncedRefresh
    /\ Logged(0, 0, <<>>)
    /\ ret' = Void
    /\ UNCHANGED <<config, autoExcludes, manualIncludes, manualExcludes,
                   partialIncludes, hasIncludesCache, hasPartialsCache,
                   fileStatsCache, workspaceState, ranges, lineCounts>>
    /\ UNCHANGED <<workspaceOpen, fileWatcher, unreadable, rebuilds>>

\* time passes; a timer that is due runs before more time passes
Tick ==
    /\ \A h \in DOMAIN timers : timers[h] > 0
    /\ DOMAIN timers # {} \/ burst.elapsed < Delay
    /\ timers' = [h \in DOMAIN timers |-> Max(0, timers[h] - TimeStep)]
    /\ burst' = [burst EXCEPT !.elapsed = Min(Delay, @ + TimeStep)]
    /\ UNCHANGED <<fs, config, autoExcludes, manualIncludes, manualExcludes,
                   partialIncludes, hasIncludesCache, hasPartialsCache,
                   fileStatsCache, workspaceState, ranges, ret, lineCounts,
                   refreshTimeout, workspaceOpen, fileWatcher, unreadable, rebuilds, log>>

(***************************************************************************)
(* recalculateAutoExclusions step by step.  The function runs up to its    *)
(* first await of findFiles, and goes on when the search resolves, while   *)
(* other handlers run in between.  A call in flight is a record: cfg, the  *)
(* configuration object read at the start; todo, the patterns not yet      *)
(* processed; stage, "patterns" while processPatterns waits for a search,  *)
(* "processed" when processPatterns has returned and the call goes on      *)
(* after its await, "binary" while the call waits for the search of the    *)
(* binary files, "returned" when the call has returned and its caller goes *)
(* on after its await; caller, who awaits the call; before, the set the    *)
(* call cleared.  A part that follows an await of a promise already        *)
(* settled is a microtask: it runs before any other handler.               *)
(***************************************************************************)
\* addPathToSet(uri.fsPath, this.autoExcludes) for every path found
Marked(fsNow, paths) ==
    {IF fsNow[p] = "dir" THEN WithSep(p) ELSE Plain(p) : p \in paths}

\* the stage after 'await this.processPatterns(...)': the search of the binary
\* files is awaited, or the call returns
AfterPatterns(cfg) == IF cfg.excludeBinaryFiles THEN "binary" ELSE "returned"

\* processPatterns up to its first await: with no pattern it returns at once
\* and the call waits at 'await this.processPatterns(...)' for a microtask
PatternsBegin(todo) == IF todo = {} THEN "processed" ELSE "patterns"

\* recalculateAutoExclusions() up to its first await: nothing without a workspace;
\* else the set is cleared, the patterns are collected and processPatterns is
\* called
recalculateBegin(cfg, caller) ==
    IF ~workspaceOpen
    THEN [cfg |-> cfg, todo |-> {}, stage |-> "returned", caller |-> caller,
          before |-> autoExcludes]
    ELSE [cfg |-> cfg, todo |-> patternsToProcess(cfg),
          stage |-> PatternsBegin(patternsToProcess(cfg)),
          caller |-> caller, before |-> autoExcludes]

\* a call that clears the set whether a workspace is open or not
BeginRebuildUnguarded(cfg, caller) ==
    /\ Len(rebuilds) < MaxRebuilds
    /\ rebuilds' = Append(rebuilds, recalculateBegin(cfg, caller))
    /\ autoExcludes' = {}

\* the call begins: this.autoExcludes.clear() when a workspace is open
BeginRebuild(cfg, caller) ==
    /\ Len(rebuilds) < MaxRebuilds
    /\ rebuilds' = Append(rebuilds, recalculateBegin(cfg, caller))
    /\ autoExcludes' = IF workspaceOpen THEN {} ELSE autoExcludes

\* the call goes on in a microtask: after the await of processPatterns, or its
\* caller after the await of the call
Pends(stage) == stage \in {"processed", "returned"}

\* no microtask of a call is due
NoMicrotask == \A i \in 1..Len(rebuilds) : ~Pends(rebuilds[i].stage)

RemoveAt(seq, i) == SubSeq(seq, 1, i - 1) \o SubSeq(seq, i + 1, Len(seq))

\* a configuration change that goes through debouncedRefresh as a file event does
OnDidChangeConfigurationDebounced(cfg) ==
    /\ config' = cfg
    /\ debouncedRefresh
    /\ Logged(0, 0, <<>>)
    /\ ret' = Void
    /\ UNCHANGED <<fs, autoExcludes, manualIncludes, manualExcludes, partialIncludes,
                   hasIncludesCache, hasPartialsCache, fileStatsCache,
                   workspaceState, ranges>>
    /\ UNCHANGED <<lineCounts, workspaceOpen, fileWatcher, unreadable, rebuilds>>

\* onDidChangeConfiguration: recalculateAutoExclusions() begins within the handler
OnDidChangeConfigurationBegin(cfg) ==
    /\ config' = cfg
    /\ BeginRebuild(cfg, "configuration")
    /\ Logged(0, 0, <<>>)
    /\ ret' = Void
    /\ UNCHANGED <<fs, manualIncludes, manualExcludes, partialIncludes,
                   hasIncludesCache, hasPartialsCache, fileStatsCache,
                   workspaceState, ranges>>
    /\ UNCHANGED <<lineCounts, timers, refreshTimeout, burst, workspaceOpen, fileWatcher, unreadable>>

\* the callback of debouncedRefresh begins recalculateAutoExclusions()
TimerFireBegin(handle) ==
    /\ handle \in DOMAIN timers
    /\ timers[handle] <= 0
    /\ timers' = MapDelete(timers, handle)
    /\ BeginRebuild(config, "timer")
    /\ burst' = [burst EXCEPT !.rebuilds = @ + 1]
    /\ Logged(0, 0, <<>>)
    /\ ret' = Void
    /\ UNCHANGED <<fs, config, manualIncludes, manualExcludes, partialIncludes,
                   hasIncludesCache, hasPartialsCache, fileStatsCache,
                   workspaceState, ranges>>
    /\ UNCHANGED <<lineCounts, refreshTimeout, workspaceOpen, fileWatcher, unreadable>>

\* processPatterns: the search for one pattern resolves; its matches and its
\* direct path are added, and the next search begins; after the last pattern
\* processPatterns returns.  With the folder closed in between,
\* path.join(this.workspaceRoot, ...) throws and the catch adds nothing.
FindFilesResolved(i, pattern) ==
    /\ i \in 1..Len(rebuilds)
    /\ rebuilds[i].stage = "patterns"
    /\ pattern \in rebuilds[i].todo
    /\ autoExcludes' =
           autoExcludes
               \cup Marked(fs, findFiles(fs, pattern)
                                  \cup (IF workspaceOpen THEN directPath(fs, pattern)
                                        ELSE {}))
    /\ rebuilds' = [rebuilds EXCEPT
                       ![i].todo = @ \ {pattern},
                       ![i].stage = PatternsBegin(rebuilds[i].todo \ {pattern})]
    /\ Logged(0, 0, <<>>)
    /\ ret' = Void
    /\ UNCHANGED <<fs, config, manualIncludes, manualExcludes, partialIncludes,
                   hasIncludesCache, hasPartialsCache, fileStatsCache,
                   workspaceState, ranges>>
    /\ UNCHANGED <<lineCounts, timers, refreshTimeout, burst, workspaceOpen, fileWatcher, unreadable>>

\* recalculateAutoExclusions goes on after 'await this.processPatterns(...)':
\* with excludeBinaryFiles it calls findFiles for the binary files and waits,
\* else it returns
PatternsProcessed(i) ==
    /\ i \in 1..Len(rebuilds)
    /\ rebuilds[i].stage = "processed"
    /\ rebuilds' = [rebuilds EXCEPT ![i].stage = AfterPatterns(rebuilds[i].cfg)]
    /\ Logged(0, 0, <<>>)
    /\ ret' = Void
    /\ UNCHANGED core
    /\ UNCHANGED <<lineCounts, timers, refreshTimeout, burst, workspaceOpen, fileWatcher, unreadable>>

\* the search for the binary files resolves and recalculateAutoExclusions returns
BinaryFilesResolved(i) ==
    /\ i \in 1..Len(rebuilds)
    /\ rebuilds[i].stage = "binary"
    /\ autoExcludes' = autoExcludes \cup Marked(fs, BinaryFiles(fs, rebuilds[i].cfg))
    /\ rebuilds' = [rebuilds EXCEPT ![i].stage = "returned"]
    /\ Logged(0, 0, <<>>)
    /\ ret' = Void
    /\ UNCHANGED <<fs, config, manualIncludes, manualExcludes, partialIncludes,
                   hasIncludesCache, hasPartialsCache, fileStatsCache,
                   workspaceState, ranges>>
    /\ UNCHANGED <<lineCounts, timers, refreshTimeout, burst, workspaceOpen, fileWatcher, unreadable>>

\* the caller goes on after its await: .then(() => this.refresh()), or
\* this.refresh() in the timer callback, or setupFileWatcher() and this.refresh()
\* in initialize(); setupFileWatcher disposes the watcher there is and creates one
\* when this.workspaceRoot is defined
RebuildReturned(i) ==
    /\ i \in 1..Len(rebuilds)
    /\ rebuilds[i].stage = "returned"
    /\ rebuilds' = RemoveAt(rebuilds, i)
    /\ hasIncludesCache' = EmptyMap
    /\ hasPartialsCache' = EmptyMap
    /\ fileStatsCache' = EmptyMap
    /\ burst' = IF /\ rebuilds[i].caller = "timer"
                   /\ burst.refreshes < burst.rebuilds
                   /\ \A j \in i + 1..Len(rebuilds) : rebuilds[j].caller # "timer"
                THEN [burst EXCEPT !.refreshes = @ + 1] ELSE burst
    /\ Logged(0, 1, <<>>)
    /\ ret' = Void
    /\ UNCHANGED <<fs, config, autoExcludes, manualIncludes, manualExcludes,
                   partialIncludes, workspaceState, ranges>>
    /\ fileWatcher' = IF rebuilds[i].caller = "initialize" THEN workspaceOpen
                      ELSE fileWatcher
    /\ UNCHANGED <<lineCounts, timers, refreshTimeout, workspaceOpen, unreadable>>

\* recalculateAutoExclusions() called by initialize() after
\* this.workspaceRoot = folders[0].uri.fsPath: the call of an open workspace
recalculateOpen(cfg, caller) ==
    [cfg |-> cfg, todo |-> patternsToProcess(cfg),
     stage |-> PatternsBegin(patternsToProcess(cfg)),
     caller |-> caller, before |-> autoExcludes]

\* initialize() with a folder open, up to its await: workspaceRoot is set,
\* loadState() runs and recalculateAutoExclusions() begins; setupFileWatcher() and
\* refresh() follow in RebuildReturned
InitializeBegin ==
    LET loaded == loadState(workspaceState)
    IN  /\ Len(rebuilds) < MaxRebuilds
        /\ workspaceOpen' = TRUE
        /\ manualIncludes' = loaded.includes
        /\ manualExcludes' = loaded.excludes
        /\ partialIncludes' = loaded.partialIncludes
        /\ autoExcludes' = {}
        /\ rebuilds' = Append(rebuilds, recalculateOpen(config, "initialize"))
        /\ Logged(0, 0, <<>>)
        /\ ret' = Void
        /\ UNCHANGED <<fs, config, hasIncludesCache, hasPartialsCache, fileStatsCache,
                       workspaceState, ranges>>
        /\ UNCHANGED <<lineCounts, timers, refreshTimeout, burst, fileWatcher, unreadable>>

\* initialize() when the last folder has been closed: workspaceRoot = undefined,
\* the watcher is disposed; the rule sets and the caches stay as they are
InitializeNoFolder ==
    /\ workspaceOpen' = FALSE
    /\ Logged(0, 0, <<>>)
    /\ ret' = Void
    /\ UNCHANGED core
    /\ fileWatcher' = FALSE
    /\ UNCHANGED <<lineCounts, timers, refreshTimeout, burst, unreadable, rebuilds>>

\* vscode.workspace.onDidChangeWorkspaceFolders(() => this.initialize())
OnDidChangeWorkspaceFolders(open) ==
    IF open THEN InitializeBegin ELSE InitializeNoFolder

\* refresh(), the command of the views: the three caches are cleared and
\* onDidChange is fired; nothing is saved
Refresh ==
    /\ hasIncludesCache' = EmptyMap
    /\ hasPartialsCache' = EmptyMap
    /\ fileStatsCache' = EmptyMap
    /\ Logged(0, 1, <<>>)
    /\ ret' = Void
    /\ UNCHANGED <<fs, config, autoExcludes, manualIncludes, manualExcludes,
                   partialIncludes, workspaceState, ranges>>
    /\ UNCHANGED watch

\* dispose(): the pending timer is cleared, its callback never runs; the watcher
\* is disposed.  Calls of recalculateAutoExclusions in flight go on.
Dispose ==
    /\ timers' = clearTimeout(timers, refreshTimeout)
    /\ fileWatcher' = FALSE
    /\ Logged(0, 0, <<>>)
    /\ ret' = Void
    /\ UNCHANGED core
    /\ UNCHANGED <<lineCounts, refreshTimeout, burst, workspaceOpen, unreadable, rebuilds>>

\* getFileStats(fullPath): the cached entry, the lines read, or zero from the catch
getFileStats(fullPath) ==
    IF MapHas(fileStatsCache, fullPath) THEN fileStatsCache[fullPath]
    ELSE IF ReadFails(fullPath) THEN [lines |-> 0]
    ELSE [lines |-> LineCount(fullPath)]

\* the stat is cached when the file has been read
GetFileStats(fullPath) ==
    /\ fs[fullPath] = "file"
    /\ fileStatsCache' = IF ~MapHas(fileStatsCache, fullPath) /\ ReadFails(fullPath)
                         THEN fileStatsCache
                         ELSE MapSet(fileStatsCache, fullPath, getFileStats(fullPath))
    /\ Logged(0, 0, <<>>)
    /\ ret' = [kind |-> "fileStats", path |-> fullPath, stat |-> getFileStats(fullPath)]
    /\ UNCHANGED <<fs, config, autoExcludes, manualIncludes, manualExcludes,
                   partialIncludes, hasIncludesCache, hasPartialsCache,
                   workspaceState, ranges>>
    /\ UNCHANGED watch

\* getSelectionStats.processPath: whether a directory entry is entered
StatsDescends(fullPath) == ~isPathVisuallyExcluded(fullPath)

\* the files getSelectionStats.processPath(dirPath) adds to processedFiles when
\* no read fails
RECURSIVE StatsFiles(_)
StatsFiles(dirPath) ==
    LET entries == Children(dirPath)
        files == {p \in entries : fs[p] # "dir" /\ ~isPathEffectivelyExcluded(p)}
        entered == {p \in entries : fs[p] = "dir" /\ StatsDescends(p)}
    IN  files \cup UNION {StatsFiles(p) : p \in entered}

\* the directories isPathVisuallyExcluded is called for by processPath and by
\* countVisiblePaths: the directory entries of every directory walked
RECURSIVE StatsVisitedDirs(_)
StatsVisitedDirs(dirPath) ==
    LET dirs == {p \in Children(dirPath) : fs[p] = "dir"}
        entered == {p \in dirs : StatsDescends(p) \/ ~isPathVisuallyExcluded(p)}
    IN  dirs \cup UNION {StatsVisitedDirs(p) : p \in entered}

(***************************************************************************)
(* generateReport step by step.  The function runs up to its first await   *)
(* and returns its promise; every part after an await is a microtask.  The *)
(* task that called it may go on: another handler runs, or the host        *)
(* delivers the answer of a findFiles, whose caller then goes on in a      *)
(* microtask of its own.  The microtasks run first in, first out, when the *)
(* task is over, and no other task begins before the queue is empty.       *)
(***************************************************************************)
\* a microtask: the next part of report number index, or of call number index of
\* recalculateAutoExclusions
ReportToken(k) == [of |-> "report", index |-> k]
RebuildToken(i) == [of |-> "rebuild", index |-> i]

Queued(token) == \E t \in 1..Len(report.queue) : report.queue[t] = token

\* every microtask queued is a part of a report
ReportsOnly == \A t \in 1..Len(report.queue) : report.queue[t].of = "report"

\* a handler can be called: no report is in flight, or the task that called
\* generateReport() is running
InTask == report.queue = <<>> \/ (report.called /\ report.others < MaxSameTask)

\* a report that waits: the caches are those of the core
Waiting(m) == [m EXCEPT !.inc = EmptyMap, !.part = EmptyMap]

\* no report in flight is alone any more
Disturbed(runs) == [k \in DOMAIN runs |-> [runs[k] EXCEPT !.alone = FALSE]]

\* a call of recalculateAutoExclusions begun by the handler awaits a promise
\* already settled, or has returned without waiting: the next part is a microtask
Returning ==
    IF Len(rebuilds') > Len(rebuilds) /\ Pends(rebuilds'[Len(rebuilds')].stage)
    THEN <<RebuildToken(Len(rebuilds'))>> ELSE <<>>

\* a handler called by the host or by a view: in a task of its own, or in the
\* task that called generateReport()
Handler(A) ==
    /\ report.queue = <<>> => NoMicrotask
    /\ InTask
    /\ A
    /\ report' = IF report.queue = <<>> THEN report
                 ELSE [report EXCEPT !.others = @ + 1,
                                     !.runs = Disturbed(@),
                                     !.queue = @ \o Returning]

\* a task of its own: time passing, a timer callback, an answer of findFiles
\* with the call that waited for it going on
Task(A) ==
    /\ NoMicrotask
    /\ report.queue = <<>>
    /\ A
    /\ UNCHANGED report

\* the caller of a call that has returned goes on, before any other task
Continues(A) ==
    /\ report.queue = <<>>
    /\ A
    /\ UNCHANGED report

\* generateReport() is called: without a folder the message is returned; else the
\* function runs up to its first await and the rest is queued
GenerateReportBegin ==
    LET m == generateReportBegin(hasPartialsCache, ReportsOnly)
    IN  /\ report.queue = <<>> => NoMicrotask
        /\ InTask
        /\ Len(report.runs) < MaxReports
        /\ Logged(0, 0, <<>>)
        /\ IF ~workspaceOpen
           THEN /\ ret' = NoWorkspace
                /\ report' = IF report.queue = <<>> THEN report
                             ELSE [report EXCEPT !.others = @ + 1]
                /\ UNCHANGED core
                /\ UNCHANGED watch
           ELSE /\ ret' = Pending
                /\ hasIncludesCache' = m.inc
                /\ hasPartialsCache' = m.part
                /\ report' =
                       [called |-> TRUE,
                        others |-> IF report.queue = <<>> THEN 0 ELSE report.others + 1,
                        runs |-> Append(report.runs, Waiting(m)),
                        queue |-> Append(report.queue, ReportToken(Len(report.runs) + 1))]
                /\ UNCHANGED <<fs, config, autoExcludes, manualIncludes, manualExcludes,
                               partialIncludes, workspaceState, ranges, fileStatsCache>>
                /\ UNCHANGED watch

\* the host delivers the answer of the findFiles call number i waits for, in the
\* task that called generateReport(): the call goes on in a microtask
FindFilesAnswered(i) ==
    /\ report.called
    /\ report.others < MaxSameTask
    /\ i \in 1..Len(rebuilds)
    /\ rebuilds[i].stage \in {"patterns", "binary"}
    /\ ~Queued(RebuildToken(i))
    /\ report' = [report EXCEPT !.others = @ + 1,
                                !.runs = Disturbed(@),
                                !.queue = Append(@, RebuildToken(i))]
    /\ UNCHANGED <<core, ret, log>>
    /\ UNCHANGED watch

\* the microtask at the head of the queue, a part of a report: q is the reports
\* in flight, the queue, the two caches and the value settled last
ReportStep(q) ==
    LET token == Head(q.queue)
        m == generateReportPart([q.runs[token.index] EXCEPT !.inc = q.inc, !.part = q.part])
    IN  [runs |-> [q.runs EXCEPT ![token.index] = Waiting(m)],
         queue |-> Tail(q.queue) \o (IF Over(m) THEN <<>> ELSE <<token>>),
         inc |-> m.inc,
         part |-> m.part,
         ret |-> IF Over(m) THEN Reported(m) ELSE q.ret]

\* the microtasks run until the queue is empty
RECURSIVE Drained(_)
Drained(q) == IF q.queue = <<>> THEN q ELSE Drained(ReportStep(q))

\* the queue after the part of call number i has run: the call has gone, or its
\* next part is a microtask, or it waits for the host
AfterRebuild(i) ==
    LET rest == Tail(report.queue)
        Renumbered(token) ==
            IF token.of = "rebuild" /\ token.index > i
            THEN RebuildToken(token.index - 1) ELSE token
    IN  IF rebuilds[i].stage = "returned"
        THEN [t \in 1..Len(rest) |-> Renumbered(rest[t])]
        ELSE IF Pends(rebuilds'[i].stage) THEN Append(rest, RebuildToken(i))
        ELSE rest

\* the task is over and the microtask at the head of the queue runs.  With parts
\* of reports alone in the queue no handler can come between them, and they run
\* to the end in one step.
Microtask ==
    LET token == Head(report.queue)
        now == [runs |-> report.runs, queue |-> report.queue,
                inc |-> hasIncludesCache, part |-> hasPartialsCache, ret |-> ret]
    IN  /\ report.queue # <<>>
        /\ IF token.of = "report"
           THEN LET q == IF ReportsOnly THEN Drained(now) ELSE ReportStep(now)
                IN  /\ hasIncludesCache' = q.inc
                    /\ hasPartialsCache' = q.part
                    /\ ret' = q.ret
                    /\ report' = IF q.queue = <<>> THEN NoReport
                                 ELSE [called |-> FALSE, others |-> report.others,
                                       runs |-> q.runs, queue |-> q.queue]
                    /\ Logged(0, 0, <<>>)
                    /\ UNCHANGED <<fs, config, autoExcludes, manualIncludes,
                                   manualExcludes, partialIncludes, workspaceState,
                                   ranges, fileStatsCache>>
                    /\ UNCHANGED watch
           ELSE /\ IF rebuilds[token.index].stage = "patterns"
                   THEN \E pattern \in rebuilds[token.index].todo :
                            FindFilesResolved(token.index, pattern)
                   ELSE IF rebuilds[token.index].stage = "processed"
                   THEN PatternsProcessed(token.index)
                   ELSE IF rebuilds[token.index].stage = "binary"
                   THEN BinaryFilesResolved(token.index)
                   ELSE RebuildReturned(token.index)
                /\ report' = IF AfterRebuild(token.index) = <<>> THEN NoReport
                             ELSE [report EXCEPT !.called = FALSE,
                                                 !.queue = AfterRebuild(token.index)]

\* the queue after the next microtasks, jobs of them at most, have run
RECURSIVE AfterJobs(_, _)
AfterJobs(q, jobs) ==
    IF jobs = 0 \/ q.queue = <<>> THEN q ELSE AfterJobs(ReportStep(q), jobs - 1)

\* another process removes a file that could be read, or puts a directory in its
\* place, while a report is in flight: the parts queued run up to the one before
\* which the disk changes, and those after it find the tree as it is then
ChangedOnDisk(fullPath, kind, jobs) ==
    /\ ~ReadFails(fullPath)
    /\ kind \in {"none", "dir"}
    /\ report.queue # <<>>
    /\ ReportsOnly \/ jobs = 0
    /\ \E q \in {AfterJobs([runs |-> report.runs, queue |-> report.queue,
                            inc |-> hasIncludesCache, part |-> hasPartialsCache,
                            ret |-> ret], jobs)} :
           /\ q.queue # <<>>
           /\ hasIncludesCache' = q.inc
           /\ hasPartialsCache' = q.part
           /\ ret' = q.ret
           /\ report' = [report EXCEPT !.called = IF jobs = 0 THEN @ ELSE FALSE,
                                       !.runs = Disturbed(q.runs), !.queue = q.queue]
    /\ fs' = [fs EXCEPT ![fullPath] = kind]
    /\ Logged(0, 0, <<>>)
    /\ UNCHANGED <<config, autoExcludes, manualIncludes, manualExcludes,
                   partialIncludes, workspaceState, ranges, fileStatsCache>>
    /\ UNCHANGED watch

Next ==
    \/ \E p \in TogglePaths : Handler(ToggleExclude(p))
    \/ \E ps \in PathLists : Handler(ToggleExcludeMultiple(ps))
    \/ Handler(ResetExclusions)
    \/ \E f \in RangeFiles, sels \in SelectionLists : Handler(AddRanges(f, sels))
    \/ \E f \in RangeFiles, sels \in SelectionLists : Handler(RemoveRanges(f, sels))
    \/ \E f \in RangeFiles : Handler(ClearRanges(f))
    \/ Handler(ClearAllRanges)
    \/ \E p \in QueryPaths : Handler(QueryVisual(p))
    \/ Handler(Refresh)

Spec == Init /\ [][Next]_vars

(***************************************************************************)
(* The report: generateReport() is called while the views toggle paths and *)
(* the editor selects lines, in tasks of their own or in the task of the   *)
(* call.                                                                   *)
(***************************************************************************)
NextReport ==
    \/ \E p \in TogglePaths : Handler(ToggleExclude(p))
    \/ \E f \in RangeFiles, sels \in SelectionLists : Handler(AddRanges(f, sels))
    \/ \E f \in RangeFiles : Handler(ClearRanges(f))
    \/ GenerateReportBegin
    \/ Microtask

SpecReport == Init /\ [][NextReport]_vars

(***************************************************************************)
(* The override store and the watched file: the commands on one directory  *)
(* and one file in it, the file being rewritten on disk in between.  No    *)
(* pattern is configured: a rebuild waits for the search of the binary     *)
(* files only, and the commands run in between.                            *)
(***************************************************************************)
StoreFiles == {Readme}
StoreTogglePaths == {Docs, Readme}
StorePathLists == {seq \in SeqsUpTo(StoreTogglePaths, MaxBatch) : Distinct(seq)}

FileSelections ==
    {sel \in [startLine : 0..MaxFileLines - 1, endLine : 0..MaxFileLines - 1] :
        sel.startLine <= sel.endLine}

FileSelectionLists == {seq \in SeqsUpTo(FileSelections, MaxSels) : Disjoint(seq)}

\* session states a former session can have left: none, and two selections in
\* readme.md
StorePersistedStates ==
    { NoSessionState,
      SessionState({}, {}, MapSet(EmptyMap, Readme,
          << [start |-> 1, end |-> 2], [start |-> MaxFileLines, end |-> MaxFileLines] >>)) }

\* the file is rewritten with one line or with all its lines
WatchLineCounts == {1, MaxFileLines}

InitStore ==
    /\ fs = FsWith("file")
    /\ config = CfgPlain
    /\ workspaceState \in StorePersistedStates
    /\ manualIncludes = loadState(workspaceState).includes
    /\ manualExcludes = loadState(workspaceState).excludes
    /\ partialIncludes = loadState(workspaceState).partialIncludes
    /\ autoExcludes = recalculateAutoExclusions(fs, config)
    /\ hasIncludesCache = EmptyMap
    /\ hasPartialsCache = EmptyMap
    /\ ranges = <<>>
    /\ ret = Void
    /\ fileStatsCache = EmptyMap
    /\ lineCounts = [p \in TreePaths |-> MaxFileLines]
    /\ InitTimer
    /\ InitHost

NextStore ==
    \/ \E p \in StoreTogglePaths : Handler(ToggleExclude(p))
    \/ \E ps \in StorePathLists : Handler(ToggleExcludeMultiple(ps))
    \/ Handler(ResetExclusions)
    \/ \E f \in StoreFiles, sels \in FileSelectionLists : Handler(AddRanges(f, sels))
    \/ \E f \in StoreFiles, sels \in FileSelectionLists :
           Handler(RemoveRanges(f, sels))
    \/ \E f \in StoreFiles : Handler(ClearRanges(f))
    \/ Handler(ClearAllRanges)
    \/ \E f \in StoreFiles, n \in WatchLineCounts :
           Handler(OnDidChange(f, n))
    \/ Task(Tick)
    \/ \E h \in DOMAIN timers : Task(TimerFireBegin(h))
    \/ Handler(InitializeBegin)
    \/ \E i \in 1..Len(rebuilds) : Task(BinaryFilesResolved(i))
    \/ \E i \in 1..Len(rebuilds) : Continues(PatternsProcessed(i))
    \/ \E i \in 1..Len(rebuilds) : Continues(RebuildReturned(i))

SpecStore == InitStore /\ [][NextStore]_vars

(***************************************************************************)
(* The file watcher: files appear, disappear and are rewritten, and the    *)
(* debounce timer rebuilds the automatic exclusions.  The timer callback   *)
(* runs when its timer is due, whatever rebuild is in flight; events and   *)
(* the file statistics come while the rebuilds wait for their searches.    *)
(***************************************************************************)
WatchConfigs == {CfgGlob}
WatchedPaths == {Build}
WatchPatterns == UNION {patternsToProcess(cfg) : cfg \in WatchConfigs}

\* one more event of the present burst may arrive
MayArrive == DOMAIN timers = {} \/ burst.events < MaxEvents

InitWatch ==
    /\ fs \in {FsWith(k) : k \in {"none", "file", "dir"}}
    /\ config \in WatchConfigs
    /\ workspaceState \in StorePersistedStates
    /\ manualIncludes = loadState(workspaceState).includes
    /\ manualExcludes = loadState(workspaceState).excludes
    /\ partialIncludes = loadState(workspaceState).partialIncludes
    /\ autoExcludes = recalculateAutoExclusions(fs, config)
    /\ hasIncludesCache = EmptyMap
    /\ hasPartialsCache = EmptyMap
    /\ ranges = <<>>
    /\ ret = Void
    /\ fileStatsCache = EmptyMap
    /\ lineCounts = [p \in TreePaths |-> MaxFileLines]
    /\ InitTimer
    /\ InitHost

\* the watcher delivers a file event
FileEvent ==
    \/ \E p \in WatchedPaths, kind \in {"file", "dir"} :
           MayArrive /\ Handler(OnDidCreate(p, kind))
    \/ \E p \in WatchedPaths : MayArrive /\ Handler(OnDidDelete(p))
    \/ \E f \in StoreFiles, n \in WatchLineCounts :
           MayArrive /\ Handler(OnDidChange(f, n))

NextWatch ==
    \/ FileEvent
    \/ Task(Tick)
    \/ \E h \in DOMAIN timers : Task(TimerFireBegin(h))
    \/ \E i \in 1..Len(rebuilds), pat \in WatchPatterns : Task(FindFilesResolved(i, pat))
    \/ \E i \in 1..Len(rebuilds) : Task(BinaryFilesResolved(i))
    \/ \E i \in 1..Len(rebuilds) : Continues(PatternsProcessed(i))
    \/ \E i \in 1..Len(rebuilds) : Continues(RebuildReturned(i))
    \/ \E f \in StoreFiles : Handler(GetFileStats(f))
    \/ Handler(Refresh)

\* time passes, a due timer runs its callback, every search of findFiles resolves
\* and a caller goes on after its await
SpecWatch ==
    /\ InitWatch /\ [][NextWatch]_vars
    /\ WF_vars(Task(Tick))
    /\ WF_vars(\E h \in DOMAIN timers : Task(TimerFireBegin(h)))
    /\ WF_vars(\E i \in 1..Len(rebuilds), pat \in WatchPatterns :
                   Task(FindFilesResolved(i, pat)))
    /\ WF_vars(\E i \in 1..Len(rebuilds) : Task(BinaryFilesResolved(i)))
    /\ WF_vars(\E i \in 1..Len(rebuilds) : Continues(PatternsProcessed(i)))
    /\ WF_vars(\E i \in 1..Len(rebuilds) : Continues(RebuildReturned(i)))

(***************************************************************************)
(* Files that cannot be read: the commands of the views and the report     *)
(* while readFileSync throws for some files, from the start or because     *)
(* another process removes readme.md, or puts a directory in its place,    *)
(* between two parts of a report.                                          *)
(***************************************************************************)
FaultFiles == {Readme, Build}
FaultTogglePaths == {Docs, Readme}
FaultQueryPaths == {Docs}

InitFaults ==
    /\ fs = FsWith("file")
    /\ config \in Configs
    /\ workspaceState \in StorePersistedStates
    /\ manualIncludes = loadState(workspaceState).includes
    /\ manualExcludes = loadState(workspaceState).excludes
    /\ partialIncludes = loadState(workspaceState).partialIncludes
    /\ autoExcludes = recalculateAutoExclusions(fs, config)
    /\ hasIncludesCache = EmptyMap
    /\ hasPartialsCache = EmptyMap
    /\ ranges = <<>>
    /\ ret = Void
    /\ fileStatsCache = EmptyMap
    /\ lineCounts = [p \in TreePaths |-> MaxFileLines]
    /\ InitTimer
    /\ workspaceOpen = TRUE
    /\ fileWatcher = TRUE
    /\ unreadable \in SUBSET FaultFiles
    /\ rebuilds = <<>>
    /\ log = LogOff

NextFaults ==
    \/ \E p \in FaultTogglePaths : Handler(ToggleExclude(p))
    \/ Handler(ResetExclusions)
    \/ \E f \in StoreFiles, sels \in FileSelectionLists : Handler(AddRanges(f, sels))
    \/ GenerateReportBegin
    \/ Microtask
    \/ \E p \in FaultQueryPaths : Handler(QueryVisual(p))
    \/ \E f \in StoreFiles, kind \in {"none", "dir"}, jobs \in 0..MaxJobs :
           ChangedOnDisk(f, kind, jobs)

SpecFaults == InitFaults /\ [][NextFaults]_vars

(***************************************************************************)
(* A window without a folder: the last folder is closed and a folder is    *)
(* opened again, while the views go on sending commands, the               *)
(* configuration changes and a report is generated.                        *)
(***************************************************************************)
\* the one pattern "pkg/build", and the binary extensions searched for
CfgBuild ==
    [autoExcludeEnabled |-> TRUE, autoExcludePatterns |-> {PatBuild},
     respectIgnoreFiles |-> TRUE, ignoreFileLines |-> <<>>,
     excludeBinaryFiles |-> TRUE, binaryFileExtensions |-> {".bin"}]

RebuildConfigs == {CfgPlain, CfgBuild}

RebuildPatterns == UNION {patternsToProcess(cfg) : cfg \in RebuildConfigs}

FolderTogglePaths == {Readme}

InitFolders ==
    /\ fs = FsWith("file")
    /\ config = CfgBuild
    /\ workspaceState \in StorePersistedStates
    /\ manualIncludes = loadState(workspaceState).includes
    /\ manualExcludes = loadState(workspaceState).excludes
    /\ partialIncludes = loadState(workspaceState).partialIncludes
    /\ autoExcludes = recalculateAutoExclusions(fs, config)
    /\ hasIncludesCache = EmptyMap
    /\ hasPartialsCache = EmptyMap
    /\ ranges = <<>>
    /\ ret = Void
    /\ fileStatsCache = EmptyMap
    /\ lineCounts = [p \in TreePaths |-> MaxFileLines]
    /\ InitTimer
    /\ InitHost

NextFolders ==
    \/ \E p \in FolderTogglePaths : Handler(ToggleExclude(p))
    \/ Handler(ResetExclusions)
    \/ GenerateReportBegin
    \/ \E i \in 1..Len(rebuilds) : FindFilesAnswered(i)
    \/ Microtask
    \/ \E p \in FaultQueryPaths : Handler(QueryVisual(p))
    \/ \E open \in BOOLEAN :
           Handler(OnDidChangeWorkspaceFolders(open))
    \/ \E cfg \in RebuildConfigs : Handler(OnDidChangeConfigurationBegin(cfg))
    \/ \E i \in 1..Len(rebuilds), pat \in RebuildPatterns :
           Task(FindFilesResolved(i, pat))
    \/ \E i \in 1..Len(rebuilds) : Task(BinaryFilesResolved(i))
    \/ \E i \in 1..Len(rebuilds) : Continues(PatternsProcessed(i))
    \/ \E i \in 1..Len(rebuilds) : Continues(RebuildReturned(i))

SpecFolders == InitFolders /\ [][NextFolders]_vars

(***************************************************************************)
(* The rebuilds of autoExcludes as they overlap: the constructor has       *)
(* called initialize(), which waits for its first search; configuration    *)
(* changes and timer callbacks begin further calls while earlier ones are  *)
(* waiting.  The watcher is set up when initialize() goes on after its     *)
(* await.                                                                  *)
(***************************************************************************)
InitRebuild ==
    /\ fs = FsWith("file")
    /\ config \in RebuildConfigs
    /\ workspaceState = NoSessionState
    /\ manualIncludes = loadState(workspaceState).includes
    /\ manualExcludes = loadState(workspaceState).excludes
    /\ partialIncludes = loadState(workspaceState).partialIncludes
    /\ workspaceOpen = TRUE
    /\ fileWatcher = FALSE
    /\ autoExcludes = {}
    /\ rebuilds = <<recalculateBegin(config, "initialize")>>
    /\ hasIncludesCache = EmptyMap
    /\ hasPartialsCache = EmptyMap
    /\ ranges = <<>>
    /\ ret = Void
    /\ fileStatsCache = EmptyMap
    /\ lineCounts = [p \in TreePaths |-> MaxLine]
    /\ InitTimer
    /\ unreadable = {}
    /\ log = LogOn

\* a file event or a configuration change arrives
Arrival ==
    \/ \E p \in WatchedPaths :
           MayArrive /\ Handler(OnDidCreate(p, "file"))
    \/ \E p \in WatchedPaths :
           MayArrive /\ Handler(OnDidDelete(p))
    \/ \E cfg \in RebuildConfigs : Handler(OnDidChangeConfigurationBegin(cfg))

NextRebuild ==
    \/ Arrival
    \/ Task(Tick)
    \/ \E h \in DOMAIN timers : Task(TimerFireBegin(h))
    \/ \E i \in 1..Len(rebuilds), pat \in RebuildPatterns : Task(FindFilesResolved(i, pat))
    \/ \E i \in 1..Len(rebuilds) : Task(BinaryFilesResolved(i))
    \/ \E i \in 1..Len(rebuilds) : Continues(PatternsProcessed(i))
    \/ \E i \in 1..Len(rebuilds) : Continues(RebuildReturned(i))

\* time passes, a due timer runs its callback, every search of findFiles resolves
\* and a caller goes on after its await
SpecRebuild ==
    /\ InitRebuild /\ [][NextRebuild]_vars
    /\ WF_vars(Task(Tick))
    /\ WF_vars(\E h \in DOMAIN timers : Task(TimerFireBegin(h)))
    /\ WF_vars(\E i \in 1..Len(rebuilds), pat \in RebuildPatterns :
                   Task(FindFilesResolved(i, pat)))
    /\ WF_vars(\E i \in 1..Len(rebuilds) : Task(BinaryFilesResolved(i)))
    /\ WF_vars(\E i \in 1..Len(rebuilds) : Continues(PatternsProcessed(i)))
    /\ WF_vars(\E i \in 1..Len(rebuilds) : Continues(RebuildReturned(i)))

(***************************************************************************)
(* The options of the configuration: pattern exclusion switched off, with  *)
(* and without an ignore file and binary extensions, while the watched     *)
(* file comes and goes.                                                    *)
(***************************************************************************)
\* autoExcludeEnabled false; a pattern configured; the ignore file not respected;
\* the extension .md counted as binary
CfgOffBinary ==
    [autoExcludeEnabled |-> FALSE, autoExcludePatterns |-> {PatDocs},
     respectIgnoreFiles |-> FALSE,
     ignoreFileLines |-> << [kind |-> "pattern", pattern |-> PatBuild] >>,
     excludeBinaryFiles |-> TRUE, binaryFileExtensions |-> {".md"}]

\* autoExcludeEnabled false; respectIgnoreFiles left at its default, true; a
\* .gitignore with the line "pkg/build"
CfgOffIgnore ==
    [autoExcludeEnabled |-> FALSE, autoExcludePatterns |-> {PatDocs},
     respectIgnoreFiles |-> TRUE,
     ignoreFileLines |-> << [kind |-> "pattern", pattern |-> PatBuild] >>,
     excludeBinaryFiles |-> FALSE, binaryFileExtensions |-> {".md"}]

OptionConfigs == {CfgOffBinary, CfgOffIgnore}
OptionPatterns == UNION {patternsToProcess(cfg) : cfg \in OptionConfigs}

InitOptions ==
    /\ fs = FsWith("file")
    /\ config \in OptionConfigs
    /\ workspaceState = NoSessionState
    /\ manualIncludes = loadState(workspaceState).includes
    /\ manualExcludes = loadState(workspaceState).excludes
    /\ partialIncludes = loadState(workspaceState).partialIncludes
    /\ autoExcludes = recalculateAutoExclusions(fs, config)
    /\ hasIncludesCache = EmptyMap
    /\ hasPartialsCache = EmptyMap
    /\ ranges = <<>>
    /\ ret = Void
    /\ fileStatsCache = EmptyMap
    /\ lineCounts = [p \in TreePaths |-> MaxLine]
    /\ InitTimer
    /\ InitHost

NextOptions ==
    \/ \E cfg \in OptionConfigs : Handler(OnDidChangeConfigurationBegin(cfg))
    \/ \E p \in WatchedPaths :
           MayArrive /\ Handler(OnDidCreate(p, "file"))
    \/ \E p \in WatchedPaths : MayArrive /\ Handler(OnDidDelete(p))
    \/ Task(Tick)
    \/ \E h \in DOMAIN timers : Task(TimerFireBegin(h))
    \/ \E i \in 1..Len(rebuilds), pat \in OptionPatterns : Task(FindFilesResolved(i, pat))
    \/ \E i \in 1..Len(rebuilds) : Task(BinaryFilesResolved(i))
    \/ \E i \in 1..Len(rebuilds) : Continues(PatternsProcessed(i))
    \/ \E i \in 1..Len(rebuilds) : Continues(RebuildReturned(i))
    \/ Handler(Dispose)

SpecOptions == InitOptions /\ [][NextOptions]_vars

(***************************************************************************)
(* A directory removed from the disk while the tree view still shows it:   *)
(* the files of docs and then docs itself are deleted, and the views go on *)
(* toggling the paths they show.                                           *)
(***************************************************************************)
MissingPaths == {Docs, Readme, Other}
MissingTogglePaths == {Docs, Readme}

\* nothing is left below the path
Emptied(fullPath) == \A p \in TreePaths : dirname(p) = fullPath => fs[p] = "none"

InitMissing ==
    /\ fs = FsWith("file")
    /\ config \in Configs
    /\ workspaceState = NoSessionState
    /\ manualIncludes = loadState(workspaceState).includes
    /\ manualExcludes = loadState(workspaceState).excludes
    /\ partialIncludes = loadState(workspaceState).partialIncludes
    /\ autoExcludes = recalculateAutoExclusions(fs, config)
    /\ hasIncludesCache = EmptyMap
    /\ hasPartialsCache = EmptyMap
    /\ ranges = <<>>
    /\ ret = Void
    /\ fileStatsCache = EmptyMap
    /\ lineCounts = [p \in TreePaths |-> MaxLine]
    /\ InitTimer
    /\ InitHost

NextMissing ==
    \/ \E p \in MissingTogglePaths : Handler(ToggleExclude(p))
    \/ \E p \in MissingPaths : MayArrive /\ Emptied(p) /\ Handler(OnDidDelete(p))
    \/ Task(Tick)
    \/ \E h \in DOMAIN timers : Task(TimerFireBegin(h))
    \/ \E i \in 1..Len(rebuilds), pat \in patternsToProcess(CfgDocs) :
           Task(FindFilesResolved(i, pat))
    \/ \E i \in 1..Len(rebuilds) : Task(BinaryFilesResolved(i))
    \/ \E i \in 1..Len(rebuilds) : Continues(PatternsProcessed(i))
    \/ \E i \in 1..Len(rebuilds) : Continues(RebuildReturned(i))
    \/ \E p \in FaultQueryPaths : Handler(QueryVisual(p))

SpecMissing == InitMissing /\ [][NextMissing]_vars

(***************************************************************************)
(* The line counts of the statistics.  A traversal returns, for every file *)
(* whose filesCount++ it reached, the pair of the file and the lines added *)
(* to totalLines for it.  readdirSync gives the entries in the order of    *)
(* the directory, taken here as ascending or descending by name.           *)
(***************************************************************************)
ReaddirOrders == {"ascending", "descending"}

Reverse(seq) == [i \in 1..Len(seq) |-> seq[Len(seq) + 1 - i]]

\* fs.readdirSync(dirPath, { withFileTypes: true })
readdirSync(dirPath, order) ==
    IF order = "ascending" THEN SortedEntries(Children(dirPath), FALSE)
    ELSE Reverse(SortedEntries(Children(dirPath), FALSE))

\* partialLines after the loops over the ranges of a file that has been read
partialLines(rs, lineCount) == Len(SelectedLines(rs, lineCount))

\* the readFileSync of getSelectionStats.processPath throws: the catch around the
\* loop is reached and the entries not yet visited are left out
SelectionReadFailed(fullPath, rest) == {}

\* getSelectionStats.processPath(dirPath)
RECURSIVE selectionProcessPath(_, _)
RECURSIVE SelectionLoop(_, _, _)
SelectionLoop(entries, i, order) ==
    IF i > Len(entries) THEN {}
    ELSE LET fullPath == entries[i]
             rest == SelectionLoop(entries, i + 1, order)
         IN  IF fs[fullPath] = "dir"
             THEN (IF StatsDescends(fullPath)
                   THEN selectionProcessPath(fullPath, order) ELSE {}) \cup rest
             ELSE IF isPathEffectivelyExcluded(fullPath) THEN rest
             ELSE IF hasPartialIncludes(fullPath)
                  THEN IF ReadFails(fullPath)
                       THEN SelectionReadFailed(fullPath, rest)
                       ELSE {<<fullPath,
                               partialLines(mergeRanges(partialIncludes[fullPath]),
                                            LineCount(fullPath))>>} \cup rest
                  ELSE {<<fullPath, getFileStats(fullPath).lines>>} \cup rest

selectionProcessPath(dirPath, order) ==
    SelectionLoop(readdirSync(dirPath, order), 1, order)

\* getFolderStats.processPath(dirPath): the ranges are taken as stored, and the
\* read has a try of its own
RECURSIVE folderProcessPath(_, _)
RECURSIVE FolderLoop(_, _, _)
FolderLoop(entries, i, order) ==
    IF i > Len(entries) THEN {}
    ELSE LET fullPath == entries[i]
             rest == FolderLoop(entries, i + 1, order)
         IN  IF fs[fullPath] = "dir"
             THEN (IF StatsDescends(fullPath)
                   THEN folderProcessPath(fullPath, order) ELSE {}) \cup rest
             ELSE IF isPathEffectivelyExcluded(fullPath) THEN rest
             ELSE IF hasPartialIncludes(fullPath)
                  THEN {<<fullPath,
                          IF ReadFails(fullPath) THEN 0
                          ELSE partialLines(partialIncludes[fullPath],
                                            LineCount(fullPath))>>} \cup rest
                  ELSE {<<fullPath, getFileStats(fullPath).lines>>} \cup rest

folderProcessPath(dirPath, order) ==
    FolderLoop(readdirSync(dirPath, order), 1, order)

\* getFileStatsWithPartial(fullPath).lines
getFileStatsWithPartial(fullPath) ==
    LET rs == IF MapHas(partialIncludes, fullPath) THEN partialIncludes[fullPath]
              ELSE <<>>
    IN  IF Len(rs) = 0 THEN getFileStats(fullPath).lines
        ELSE IF ReadFails(fullPath) THEN 0
        ELSE partialLines(mergeRanges(rs), LineCount(fullPath))

\* the files a traversal has called getFileStats for and could read
StatsRead(counted) == {f \in {pair[1] : pair \in counted} : ~ReadFails(f)}

\* getSelectionStats(): processPath from the root, then countVisiblePaths, which
\* asks isPathVisuallyExcluded for every entry of every directory shown
GetSelectionLines(order) ==
    LET counted == selectionProcessPath(workspaceRoot, order)
        visited == {d \in StatsVisitedDirs(workspaceRoot) : isPathEffectivelyExcluded(d)}
        asked == {d \in visited : ~folderContainsManualIncludes(hasIncludesCache, d)}
    IN  /\ workspaceOpen
        /\ ret' = [kind |-> "selectionLines", counted |-> counted,
                   files |-> Cardinality(counted)]
        /\ Logged(0, 0, <<>>)
        /\ hasIncludesCache' =
               [d \in visited \cup DOMAIN hasIncludesCache |->
                   folderContainsManualIncludes(hasIncludesCache, d)]
        /\ hasPartialsCache' =
               [d \in asked \cup DOMAIN hasPartialsCache |->
                   folderContainsPartialIncludes(hasPartialsCache, d)]
        /\ fileStatsCache' =
               [f \in StatsRead(counted) \cup DOMAIN fileStatsCache |-> getFileStats(f)]
        /\ UNCHANGED <<fs, config, autoExcludes, manualIncludes, manualExcludes,
                       partialIncludes, workspaceState, ranges>>
        /\ UNCHANGED watch

\* getStatsForPath(p) for a directory: getFolderStats(p)
GetFolderLines(folderPath, order) ==
    LET counted == folderProcessPath(folderPath, order)
        visited == {d \in StatsVisitedDirs(folderPath) : isPathEffectivelyExcluded(d)}
        asked == {d \in visited : ~folderContainsManualIncludes(hasIncludesCache, d)}
    IN  /\ fs[folderPath] = "dir"
        /\ ret' = [kind |-> "folderLines", counted |-> counted,
                   files |-> Cardinality(counted)]
        /\ Logged(0, 0, <<>>)
        /\ hasIncludesCache' =
               [d \in visited \cup DOMAIN hasIncludesCache |->
                   folderContainsManualIncludes(hasIncludesCache, d)]
        /\ hasPartialsCache' =
               [d \in asked \cup DOMAIN hasPartialsCache |->
                   folderContainsPartialIncludes(hasPartialsCache, d)]
        /\ fileStatsCache' =
               [f \in StatsRead(counted) \cup DOMAIN fileStatsCache |-> getFileStats(f)]
        /\ UNCHANGED <<fs, config, autoExcludes, manualIncludes, manualExcludes,
                       partialIncludes, workspaceState, ranges>>
        /\ UNCHANGED watch

\* getStatsForPath(p) for a file: getFileStatsWithPartial(p) when the path is a
\* key of partialIncludes, getFileStats(p) otherwise; getFileStats is called, and
\* caches, when the ranges are none
GetFileLines(fullPath) ==
    LET viaStats == ~MapHas(partialIncludes, fullPath)
                    \/ Len(partialIncludes[fullPath]) = 0
    IN  /\ fs[fullPath] = "file"
        /\ ret' = [kind |-> "fileLines",
                   counted |-> {<<fullPath, getFileStatsWithPartial(fullPath)>>},
                   files |-> 1]
        /\ Logged(0, 0, <<>>)
        /\ fileStatsCache' = IF viaStats /\ ~ReadFails(fullPath)
                             THEN MapSet(fileStatsCache, fullPath, getFileStats(fullPath))
                             ELSE fileStatsCache
        /\ UNCHANGED <<fs, config, autoExcludes, manualIncludes, manualExcludes,
                       partialIncludes, hasIncludesCache, hasPartialsCache,
                       workspaceState, ranges>>
        /\ UNCHANGED watch

LineFolders == {Docs}

\* lines of readme.md its editor selections touch in the line-count runs
MaxSelLine == 3

LineSelections == {sel \in FileSelections : sel.endLine < MaxSelLine}

LineSelectionLists == {seq \in SeqsUpTo(LineSelections, MaxSels) : Disjoint(seq)}

\* the files are readable; readme.md changes on disk and in its selection; the
\* configuration has no pattern and no binary extension to search for
\* the file is rewritten with one line, with two, or with all its lines
LineCountsWritten == {1, 2, MaxFileLines}

InitLines ==
    /\ fs = FsWith("file")
    /\ config = CfgBare
    /\ workspaceState = NoSessionState
    /\ manualIncludes = loadState(workspaceState).includes
    /\ manualExcludes = loadState(workspaceState).excludes
    /\ partialIncludes = loadState(workspaceState).partialIncludes
    /\ autoExcludes = recalculateAutoExclusions(fs, config)
    /\ hasIncludesCache = EmptyMap
    /\ hasPartialsCache = EmptyMap
    /\ ranges = <<>>
    /\ ret = Void
    /\ fileStatsCache = EmptyMap
    /\ lineCounts = [p \in TreePaths |-> MaxFileLines]
    /\ InitTimer
    /\ InitHost

NextLines ==
    \/ \E f \in StoreFiles, sels \in LineSelectionLists : Handler(AddRanges(f, sels))
    \/ \E f \in StoreFiles, n \in LineCountsWritten :
           MayArrive /\ Handler(OnDidChange(f, n))
    \/ Task(Tick)
    \/ \E h \in DOMAIN timers : Task(TimerFireBegin(h))
    \/ \E i \in 1..Len(rebuilds) : Continues(PatternsProcessed(i))
    \/ \E i \in 1..Len(rebuilds) : Continues(RebuildReturned(i))
    \/ GenerateReportBegin
    \/ Microtask
    \/ \E order \in ReaddirOrders : Handler(GetSelectionLines(order))
    \/ \E d \in LineFolders, order \in ReaddirOrders : Handler(GetFolderLines(d, order))
    \/ \E f \in StoreFiles : Handler(GetFileLines(f))

SpecLines == InitLines /\ [][NextLines]_vars

\* a former session can have left a selection in pkg/build; any of the files read
\* can be unreadable
LineFaultStates ==
    { NoSessionState,
      SessionState({}, {}, MapSet(EmptyMap, Build, << [start |-> 1, end |-> MaxLine] >>)) }

InitLineFaults ==
    /\ fs = FsWith("file")
    /\ config = CfgPlain
    /\ workspaceState \in LineFaultStates
    /\ manualIncludes = loadState(workspaceState).includes
    /\ manualExcludes = loadState(workspaceState).excludes
    /\ partialIncludes = loadState(workspaceState).partialIncludes
    /\ autoExcludes = recalculateAutoExclusions(fs, config)
    /\ hasIncludesCache = EmptyMap
    /\ hasPartialsCache = EmptyMap
    /\ ranges = <<>>
    /\ ret = Void
    /\ fileStatsCache = EmptyMap
    /\ lineCounts = [p \in TreePaths |-> MaxFileLines]
    /\ InitTimer
    /\ workspaceOpen = TRUE
    /\ fileWatcher = TRUE
    /\ unreadable \in SUBSET FaultFiles
    /\ rebuilds = <<>>
    /\ log = LogOff

NextLineFaults ==
    \/ \E f \in FaultFiles, sels \in SelectionLists : Handler(AddRanges(f, sels))
    \/ \E f \in FaultFiles : Handler(ClearRanges(f))
    \/ \E order \in ReaddirOrders : Handler(GetSelectionLines(order))
    \/ \E d \in {Pkg}, order \in ReaddirOrders : Handler(GetFolderLines(d, order))
    \/ \E f \in FaultFiles : Handler(GetFileLines(f))
    \/ \E f \in FaultFiles : Handler(GetFileStats(f))

SpecLineFaults == InitLineFaults /\ [][NextLineFaults]_vars

(***************************************************************************)
(* The commands of the views with a listener attached to the memento and   *)
(* to the emitters of the core.                                            *)
(***************************************************************************)
InitNotify ==
    /\ fs = FsWith("file")
    /\ config \in Configs
    /\ workspaceState = NoSessionState
    /\ manualIncludes = loadState(workspaceState).includes
    /\ manualExcludes = loadState(workspaceState).excludes
    /\ partialIncludes = loadState(workspaceState).partialIncludes
    /\ autoExcludes = recalculateAutoExclusions(fs, config)
    /\ hasIncludesCache = EmptyMap
    /\ hasPartialsCache = EmptyMap
    /\ ranges = <<>>
    /\ ret = Void
    /\ fileStatsCache = EmptyMap
    /\ lineCounts = [p \in TreePaths |-> MaxLine]
    /\ InitTimer
    /\ workspaceOpen = TRUE
    /\ fileWatcher = TRUE
    /\ unreadable = {}
    /\ rebuilds = <<>>
    /\ log = LogOn

NextNotify ==
    \/ \E p \in TogglePaths : Handler(ToggleExclude(p))
    \/ \E ps \in PathLists : Handler(ToggleExcludeMultiple(ps))
    \/ Handler(ResetExclusions)
    \/ \E f \in RangeFiles, sels \in SelectionLists : Handler(AddRanges(f, sels))
    \/ \E f \in RangeFiles, sels \in SelectionLists : Handler(RemoveRanges(f, sels))
    \/ \E f \in RangeFiles : Handler(ClearRanges(f))
    \/ \E p \in QueryPaths : Handler(QueryVisual(p))

SpecNotify == InitNotify /\ [][NextNotify]_vars

(***************************************************************************)
(* The range algebra on its own: mergeRanges applied to an argument, and   *)
(* applied again to its own result.                                        *)
(***************************************************************************)
RangeArgs == {[start |-> a, end |-> b] : a \in 1..MaxRangeLine, b \in 1..MaxRangeLine}
                 \cap {r \in [start : 1..MaxRangeLine, end : 1..MaxRangeLine] :
                          r.start <= r.end}

RangeLists == {<<>>} \cup SeqsUpTo(RangeArgs, MaxRanges)

InitMerge ==
    /\ fs = FsWith("file")
    /\ config = CfgPlain
    /\ workspaceState = NoSessionState
    /\ manualIncludes = {}
    /\ manualExcludes = {}
    /\ partialIncludes = EmptyMap
    /\ autoExcludes = recalculateAutoExclusions(fs, config)
    /\ hasIncludesCache = EmptyMap
    /\ hasPartialsCache = EmptyMap
    /\ ranges \in RangeLists
    /\ ret = Void
    /\ fileStatsCache = EmptyMap
    /\ lineCounts = [p \in TreePaths |-> MaxLine]
    /\ InitTimer
    /\ InitHost

\* mergeRanges(ranges): the value returned, the argument as it was passed, and the
\* argument as the call leaves it
MergeOnce ==
    /\ ret.kind = "void"
    /\ ret' = [kind |-> "merged", argument |-> ranges, value |-> mergeRanges(ranges)]
    /\ ranges' = mergeRangesWrites(ranges)
    /\ UNCHANGED <<fs, config, autoExcludes, manualIncludes, manualExcludes,
                   partialIncludes, hasIncludesCache, hasPartialsCache,
                   workspaceState, fileStatsCache, report, log>>
    /\ UNCHANGED watch

\* mergeRanges applied to the list the first call returned.  No range of that list
\* begins within one line of the end of the range before it, so the loop takes
\* the push branch every time and writes into no range object.
MergeAgain ==
    /\ ret.kind = "merged"
    /\ ret' = [kind |-> "remerged", argument |-> ret.argument, first |-> ret.value,
               value |-> mergeRanges(ret.value)]
    /\ UNCHANGED <<fs, config, autoExcludes, manualIncludes, manualExcludes,
                   partialIncludes, hasIncludesCache, hasPartialsCache,
                   workspaceState, ranges, fileStatsCache, report, log>>
    /\ UNCHANGED watch

NextMerge == MergeOnce \/ MergeAgain

SpecMerge == InitMerge /\ [][NextMerge]_vars

(***************************************************************************)
(* subtractRange applied to a pair of ranges.                              *)
(***************************************************************************)
InitSubtract ==
    /\ fs = FsWith("file")
    /\ config = CfgPlain
    /\ workspaceState = NoSessionState
    /\ manualIncludes = {}
    /\ manualExcludes = {}
    /\ partialIncludes = EmptyMap
    /\ autoExcludes = recalculateAutoExclusions(fs, config)
    /\ hasIncludesCache = EmptyMap
    /\ hasPartialsCache = EmptyMap
    /\ ranges \in [1..2 -> RangeArgs]
    /\ ret = Void
    /\ fileStatsCache = EmptyMap
    /\ lineCounts = [p \in TreePaths |-> MaxLine]
    /\ InitTimer
    /\ InitHost

\* subtractRange(r, s) with r = ranges[1], s = ranges[2]
SubtractOnce ==
    /\ ret.kind = "void"
    /\ ret' = [kind |-> "subtracted", value |-> subtractRange(ranges[1], ranges[2])]
    /\ UNCHANGED <<fs, config, autoExcludes, manualIncludes, manualExcludes,
                   partialIncludes, hasIncludesCache, hasPartialsCache,
                   workspaceState, ranges, fileStatsCache, report, log>>
    /\ UNCHANGED watch

NextSubtract == SubtractOnce

SpecSubtract == InitSubtract /\ [][NextSubtract]_vars

(***************************************************************************)
(* Properties.                                                             *)
(***************************************************************************)
\* p itself and its ancestors up to "/"
Chain(p) == {SubSeq(p, 1, k) : k \in 0..Len(p)}
HasManualRule(q) == HasEither(manualIncludes, q) \/ HasEither(manualExcludes, q)
Below(q, d) == IsPrefix(d, q) /\ Len(q) > Len(d)
HasNonEmptyPartial(f) == MapHas(partialIncludes, f) /\ Len(partialIncludes[f]) > 0

\* C1: the nearest path on p's ancestor chain (p first) that carries a manual rule
\* decides isPathEffectivelyExcluded(p): false when it is in manualIncludes, true
\* when it is in manualExcludes, whatever rules exist farther up.
C1_NearestManualRuleWins ==
    \A p \in Paths :
        (\E q \in Chain(p) : HasManualRule(q)) =>
            LET nearest == CHOOSE q \in Chain(p) :
                               /\ HasManualRule(q)
                               /\ \A r \in Chain(p) : HasManualRule(r) => Len(r) <= Len(q)
            IN  /\ HasEither(manualIncludes, nearest) => ~isPathEffectivelyExcluded(p)
                /\ HasEither(manualExcludes, nearest) => isPathEffectivelyExcluded(p)

\* a path manually excluded inside a manually included directory is excluded, and a
\* path manually included inside a manually excluded directory is included
C1_Witness ==
    /\ \E p, q \in TreePaths :
          /\ Below(p, q) /\ HasEither(manualExcludes, p) /\ HasEither(manualIncludes, q)
          /\ isPathEffectivelyExcluded(p)
    /\ \E p, q \in TreePaths :
          /\ Below(p, q) /\ HasEither(manualIncludes, p) /\ HasEither(manualExcludes, q)
          /\ ~isPathEffectivelyExcluded(p)

\* C2: no path is in both manualIncludes and manualExcludes, its plain form and its
\* trailing-separator form counting as the same path.
C2_ManualSetsDisjoint ==
    \A p \in Paths : ~(HasEither(manualIncludes, p) /\ HasEither(manualExcludes, p))

\* Build was stored as a directory by a former session and has been toggled as a
\* plain path since, with rules in both sets and a selection stored
C2_Witness ==
    /\ fs[Build] # "dir"
    /\ Plain(Build) \in manualIncludes
    /\ manualExcludes # {}
    /\ partialIncludes # EmptyMap

\* C3: toggleExclude(p) negates isPathEffectivelyExcluded(p), for every path and in
\* every reachable state.
C3_ToggleNegatesVerdict ==
    [][\A p \in TogglePaths :
          ToggleExclude(p) =>
              (isPathEffectivelyExcluded(p)' = ~isPathEffectivelyExcluded(p))]_vars

\* an automatically excluded file has been toggled to included, and a file below a
\* manually included directory has been toggled to excluded
C3_Witness ==
    /\ autoCheck(autoExcludes, Other) = "true"
    /\ Plain(Other) \in manualIncludes
    /\ ~isPathEffectivelyExcluded(Other)
    /\ WithSep(Docs) \in manualIncludes
    /\ Plain(Readme) \in manualExcludes
    /\ isPathEffectivelyExcluded(Readme)

\* C4: right after toggleExclude(D) on an existing directory D every path below D
\* has D's effective verdict, and no manual rule of the opposite kind remains
\* below D.
C4_ToggleDirectoryCoversDescendants ==
    [][\A d \in TogglePaths :
          (ToggleExclude(d) /\ fs[d] = "dir") =>
              /\ \A q \in Paths :
                    Below(q, d) =>
                        isPathEffectivelyExcluded(q)' = isPathEffectivelyExcluded(d)'
              /\ \A e \in Entries :
                    Below(e.path, d) =>
                        IF isPathEffectivelyExcluded(d)'
                        THEN e \notin manualIncludes'
                        ELSE e \notin manualExcludes']_vars

\* Pkg has been toggled to excluded while automatic rules exist below it: nothing
\* below it is included
C4_Witness ==
    /\ WithSep(Pkg) \in manualExcludes
    /\ autoExcludes # {}
    /\ \A q \in TreePaths : Below(q, Pkg) => isPathEffectivelyExcluded(q)
    /\ \A e \in manualIncludes : ~Below(e.path, Pkg)

\* the part of C5 shared by the claim as written and as amended: an effectively
\* excluded directory D above a manually included file F is not visually excluded
\* and stays effectively excluded, no directory between them is visually excluded,
\* and F is not visually excluded
C5Case(D, F) ==
    /\ fs[D] = "dir" /\ fs[F] = "file" /\ Below(F, D)
    /\ isPathEffectivelyExcluded(D)
    /\ HasEither(manualIncludes, F)

C5Visible(D, F) ==
    /\ ~isPathVisuallyExcluded(D)
    /\ isPathEffectivelyExcluded(D)
    /\ \A M \in TreePaths :
          (fs[M] = "dir" /\ Below(M, D) /\ Below(F, M)) => ~isPathVisuallyExcluded(M)
    /\ ~isPathVisuallyExcluded(F)

Siblings(F) == {S \in TreePaths : S # F /\ dirname(S) = dirname(F) /\ fs[S] # "none"}

\* C5 as written: ... and a sibling of F without a rule of its own stays visually
\* excluded.
C5_SiblingStaysExcluded ==
    \A D, F \in TreePaths :
        C5Case(D, F) =>
            /\ C5Visible(D, F)
            /\ \A S \in Siblings(F) : ~HasManualRule(S) => isPathVisuallyExcluded(S)

\* C5 as amended: ... and a sibling of F without a manual rule of its own stays
\* visually excluded when F's parent directory is effectively excluded and the
\* sibling is not a directory with a manual include or a partial selection below it.
C5_VisualEffectiveDivergence ==
    \A D, F \in TreePaths :
        C5Case(D, F) =>
            /\ C5Visible(D, F)
            /\ \A S \in Siblings(F) :
                  ( /\ ~HasManualRule(S)
                    /\ isPathEffectivelyExcluded(dirname(F))
                    /\ ~(/\ fs[S] = "dir"
                         /\ \/ \E e \in manualIncludes : StartsWithSep(e, S)
                            \/ \E k \in DOMAIN partialIncludes : StartsWithSep(Plain(k), S)) )
                  => isPathVisuallyExcluded(S)

\* Pkg is excluded, readme.md two levels below is manually included: Pkg and Docs
\* stay effectively excluded and visible, other.md stays visually excluded
C5_Witness ==
    /\ C5Case(Pkg, Readme)
    /\ isPathEffectivelyExcluded(Docs) /\ ~isPathVisuallyExcluded(Docs)
    /\ ~isPathVisuallyExcluded(Pkg)
    /\ ~HasManualRule(Other) /\ isPathVisuallyExcluded(Other)

\* C6: a file with a non-empty partial selection is never visually excluded.
C6_PartialFileNeverVisuallyExcluded ==
    \A f \in TreePaths :
        (fs[f] = "file" /\ HasNonEmptyPartial(f)) => ~isPathVisuallyExcluded(f)

Listed(p) == \E i \in 1..Len(ret.structure) : ret.structure[i].rel = relative(p)
BlocksOf(p) == {i \in 1..Len(ret.blocks) : ret.blocks[i].rel = relative(p)}

\* C7: a path of the tree is in the structure listing of a report generated for one
\* snapshot of the rule sets and the tree (nothing ran between the call and the
\* return) exactly when it is not visually excluded.
C7_ListingMatchesVisibility ==
    (ret.kind = "report" /\ ret.alone) =>
        \A p \in TreePaths :
            fs[p] # "none" => (Listed(p) <=> ~isPathVisuallyExcluded(p))

\* a report that lists an effectively excluded directory and the included file in
\* it, and leaves the other file of the directory out
C7_Witness ==
    /\ ret.kind = "report" /\ ret.alone
    /\ isPathEffectivelyExcluded(Pkg) /\ isPathEffectivelyExcluded(Docs)
    /\ Listed(Pkg) /\ Listed(Docs) /\ Listed(Readme) /\ ~Listed(Other)

\* C8: a report holds exactly one content block for every file that is not
\* effectively excluded and none for a file that is.
C8_BlocksMatchEffective ==
    ret.kind = "report" =>
        \A f \in TreePaths :
            fs[f] = "file" =>
                Cardinality(BlocksOf(f)) = IF isPathEffectivelyExcluded(f) THEN 0 ELSE 1

\* a report with the block of a file included below two excluded directories
C8_Witness ==
    /\ ret.kind = "report"
    /\ isPathEffectivelyExcluded(Pkg) /\ isPathEffectivelyExcluded(Docs)
    /\ ~isPathEffectivelyExcluded(Readme) /\ BlocksOf(Readme) # {}
    /\ isPathEffectivelyExcluded(Other) /\ BlocksOf(Other) = {}

\* the files of the structure listing of the report returned, and the files of its
\* content blocks
ListedFiles ==
    {ret.structure[i].rel : i \in {j \in 1..Len(ret.structure) : ~ret.structure[j].dir}}
EmittedFiles == {ret.blocks[i].rel : i \in 1..Len(ret.blocks)}

\* C9 as stated: in every generated report the files of the structure listing are
\* the files of the content blocks.
C9_ListedFilesAreEmittedFiles ==
    ret.kind = "report" => ListedFiles = EmittedFiles

\* C9, amended: the files of the structure listing are the files of the content
\* blocks in every report generated for one snapshot of the rule sets, the
\* selections and the tree: no handler ran between the call of generateReport and
\* the return of the report.
C9_SnapshotListedAreEmitted ==
    (ret.kind = "report" /\ ret.alone) => ListedFiles = EmittedFiles

\* a report made while an effectively excluded file has a partial selection and
\* its sibling is included by hand
C9_Witness ==
    /\ ret.kind = "report" /\ ret.alone
    /\ HasNonEmptyPartial(Readme) /\ isPathEffectivelyExcluded(Readme)
    /\ ~Listed(Readme) /\ BlocksOf(Readme) = {}
    /\ Listed(Other) /\ BlocksOf(Other) # {}

\* C10: mergeRanges(mergeRanges(R)) = mergeRanges(R) for every list R of ranges
\* with start <= end.
C10_MergeIdempotent ==
    ret.kind = "remerged" => ret.value = ret.first

\* an unsorted argument of three ranges, one covering another, merged to two ranges
C10_Witness ==
    /\ ret.kind = "remerged"
    /\ Len(ret.argument) = 3
    /\ ret.argument[1].start > ret.argument[2].start
    /\ ret.argument[2].end >= ret.argument[3].end
    /\ ret.argument[2].start < ret.argument[3].start
    /\ Len(ret.first) = 2

\* the line numbers of a range, and of a list of ranges
LinesOf(r) == r.start..r.end
LinesOfAll(rs) == UNION {LinesOf(rs[i]) : i \in 1..Len(rs)}

\* C11: for ranges r and s with start <= end, subtractRange(r, s) has at most two
\* pieces; the pieces are ranges with start <= end, pairwise disjoint, inside r and
\* disjoint from s, and together with the lines s and r share they are the lines
\* of r.
C11_SubtractPartitions ==
    ret.kind = "subtracted" =>
        LET r == ranges[1]
            s == ranges[2]
            pieces == ret.value
        IN  /\ Len(pieces) <= 2
            /\ \A i \in 1..Len(pieces) :
                  /\ pieces[i].start <= pieces[i].end
                  /\ LinesOf(pieces[i]) \subseteq LinesOf(r)
                  /\ LinesOf(pieces[i]) \cap LinesOf(s) = {}
            /\ \A i, j \in 1..Len(pieces) :
                  i # j => LinesOf(pieces[i]) \cap LinesOf(pieces[j]) = {}
            /\ LinesOfAll(pieces) \cup (LinesOf(s) \cap LinesOf(r)) = LinesOf(r)

\* a range cut in two by a range strictly inside it
C11_Witness ==
    /\ ret.kind = "subtracted"
    /\ ranges[2].start > ranges[1].start /\ ranges[2].end < ranges[1].end
    /\ Len(ret.value) = 2

Normalized(rs) ==
    /\ \A i \in 1..Len(rs) : 1 <= rs[i].start /\ rs[i].start <= rs[i].end
    /\ \A i \in 1..Len(rs) - 1 : rs[i + 1].start > rs[i].end + 1

Range(a, b) == [start |-> a, end |-> b]

\* C12: whatever addRanges, removeRanges, clearRanges, clearAllRanges and file-change
\* validations have run, every stored range list is normalized: 1 <= start <= end,
\* sorted, disjoint and non-adjacent; adding {1-3}, {5-7} and then {4-4} stores
\* {1-7}.
C12_StoredRangesNormalized ==
    /\ \A f \in DOMAIN partialIncludes : Normalized(partialIncludes[f])
    /\ mergeRanges(mergeRanges(mergeRanges(<<Range(1, 3)>>) \o <<Range(5, 7)>>)
                       \o <<Range(4, 4)>>) = <<Range(1, 7)>>

\* readme.md holds two ranges after it was rewritten with fewer lines and a
\* selection was added since
C12_Witness ==
    /\ lineCounts[Readme] < MaxFileLines
    /\ MapHas(partialIncludes, Readme)
    /\ Len(partialIncludes[Readme]) = 2
    /\ partialIncludes[Readme] # loadState(workspaceState).partialIncludes[Readme]
           \/ DOMAIN timers # {}
    /\ partialIncludes[Readme][2].end = MaxFileLines

SelectedOf(partial, f) == IF MapHas(partial, f) THEN LinesOfAll(partial[f]) ELSE {}

\* C13: removeRanges(f, S) leaves f with the lines selected before that are in no
\* range of S, deletes f's entry when no line remains, and changes nothing when f
\* had no selection; {1-10} minus {3-5} gives {1-2},{6-10}.
C13_RemoveLeavesUncoveredLines ==
    /\ [][\A f \in StoreFiles, sels \in FileSelectionLists :
              RemoveRanges(f, sels) =>
                  LET before == SelectedOf(partialIncludes, f)
                      removed == LinesOfAll(SelectionsToRanges(sels))
                  IN  IF before = {}
                      THEN UNCHANGED partialIncludes
                      ELSE /\ SelectedOf(partialIncludes', f) = before \ removed
                           /\ MapHas(partialIncludes', f) <=> before \ removed # {}]_vars
    /\ [](SubtractAll(<<Range(1, 10)>>, <<Range(3, 5)>>) = <<Range(1, 2), Range(6, 10)>>)

\* a selection has been cut out of the middle of a stored range
C13_Witness ==
    /\ MapHas(partialIncludes, Readme)
    /\ partialIncludes[Readme] = <<Range(1, 1), Range(3, MaxFileLines)>>
    /\ workspaceState.partialIncludes = partialIncludes

\* C15: after every completed mutating command the persisted session state holds
\* the in-memory manualIncludes, manualExcludes and partial selections, so that
\* loadState reproduces the three collections (and with them every verdict).
C15_PersistedStateMatchesMemory ==
    loadState(workspaceState) =
        [includes |-> manualIncludes, excludes |-> manualExcludes,
         partialIncludes |-> partialIncludes]

\* rules in both manual sets and a selection that a file-change validation has cut
C15_Witness ==
    /\ workspaceState.defined
    /\ manualIncludes # {} /\ manualExcludes # {}
    /\ MapHas(partialIncludes, Readme)
    /\ partialIncludes[Readme] = <<Range(1, 1)>>
    /\ lineCounts[Readme] = 1
    /\ DOMAIN timers # {}

\* C17: after a file-change notification for a file of L lines every range stored
\* for the file has start <= L and end <= L.
C17_RangesWithinFileAfterChange ==
    [][\A f \in StoreFiles, n \in 1..MaxFileLines :
          OnDidChange(f, n) =>
              \A i \in 1..Len(IF MapHas(partialIncludes', f) THEN partialIncludes'[f] ELSE <<>>) :
                  partialIncludes'[f][i].start <= n /\ partialIncludes'[f][i].end <= n]_vars

\* C14: resetExclusions with a workspace open leaves manualIncludes, manualExcludes
\* and the partial selections empty and autoExcludes as it was, and afterwards a
\* path is effectively excluded exactly when itself or an ancestor is in
\* autoExcludes.
C14_ResetLeavesAutomaticVerdicts ==
    [][ResetExclusions =>
          /\ manualIncludes' = {} /\ manualExcludes' = {}
          /\ partialIncludes' = EmptyMap
          /\ autoExcludes' = autoExcludes
          /\ \A p \in Paths :
                isPathEffectivelyExcluded(p)'
                    <=> \E q \in Chain(p) : HasEither(autoExcludes, q)]_vars

\* everything manual is gone and saved as such while automatic rules exclude
\* readme.md and leave pkg alone
C14_Witness ==
    /\ workspaceState = SessionState({}, {}, EmptyMap)
    /\ manualIncludes = {} /\ manualExcludes = {} /\ partialIncludes = EmptyMap
    /\ autoExcludes # {}
    /\ isPathEffectivelyExcluded(Readme)
    /\ ~isPathEffectivelyExcluded(Pkg)

\* C16: after an auto-exclusion rebuild a configured pattern of one segment, a glob
\* such as "*.md" or a bare name such as "docs", excludes what it matches at every
\* depth: with no manual rule, every path that has a matching path on its chain
\* below the workspace root is effectively excluded and is not listed in a report.
C16_PatternsExcludeEveryDepth ==
    ( /\ autoExcludes = recalculateAutoExclusions(fs, config)
      /\ manualIncludes = {} /\ manualExcludes = {} ) =>
        \A pat \in patternsToProcess(config) :
            Len(pat.segs) = 1 =>
                \A p \in TreePaths :
                    ( /\ fs[p] # "none"
                      /\ \E q \in Chain(p) : /\ Below(q, workspaceRoot)
                                              /\ MatchName(pat.segs[1], basename(q)) )
                    => /\ isPathEffectivelyExcluded(p)
                       /\ \A i \in 1..Len(generateReport.structure) :
                              generateReport.structure[i].rel # relative(p)

\* C20: at most one debounce timer is pending at any time; the callback of a burst
\* of file events runs only when the delay has passed since the last event of the
\* burst, and begins the one rebuild of the burst, none while a timer is pending;
\* the refresh of the burst comes when that rebuild has returned, and only then;
\* a pending timer leads to that one rebuild, and unless file events keep arriving
\* for ever, the rebuilds in flight lead to their return and refresh.
C20_DebounceCoalesces ==
    /\ [](/\ Cardinality(DOMAIN timers) <= 1
          /\ burst.rebuilds <= 1 /\ burst.refreshes <= burst.rebuilds
          /\ DOMAIN timers # {} => burst.rebuilds = 0)
    /\ [][\A h \in DOMAIN timers :
              TimerFireBegin(h) =>
                  /\ burst.elapsed >= Delay
                  /\ burst'.rebuilds = 1 /\ burst'.refreshes = 0
                  /\ Len(rebuilds') = Len(rebuilds) + 1]_vars
    /\ [][burst'.refreshes > burst.refreshes =>
              \E i \in 1..Len(rebuilds) :
                  /\ rebuilds[i].caller = "timer"
                  /\ RebuildReturned(i)
                  /\ fileStatsCache' = EmptyMap]_vars
    /\ (DOMAIN timers # {}) ~> (DOMAIN timers = {} /\ burst.rebuilds = 1)
    /\ ([]<><<FileEvent>>_vars \/ ((rebuilds # <<>>) ~> (rebuilds = <<>>)))

\* the rebuild of a burst of MaxEvents events has run
C20_Witness ==
    /\ burst.events = MaxEvents
    /\ burst.rebuilds = 1 /\ burst.refreshes = 1
    /\ DOMAIN timers = {}
    /\ refreshTimeout # 0

\* C18: getSelectionStats().files is the number of 'File:' blocks generateReport
\* produces for the same rule sets and tree, the files counted being the files of
\* the blocks.
C18_StatsFilesMatchReportBlocks ==
    ret.kind = "selectionLines" =>
        /\ ret.files = Len(generateReport.blocks)
        /\ {relative(pair[1]) : pair \in ret.counted}
               = {generateReport.blocks[i].rel : i \in 1..Len(generateReport.blocks)}

\* C19: every operation that changes manualIncludes, manualExcludes, the partial
\* selections or autoExcludes leaves the has-manual-include cache, the has-partial
\* cache and the file-stats cache cleared when it returns.
C19_MutationsClearCaches ==
    [][<<autoExcludes, manualIncludes, manualExcludes, partialIncludes>>'
           # <<autoExcludes, manualIncludes, manualExcludes, partialIncludes>>
       => /\ hasIncludesCache' = EmptyMap
          /\ hasPartialsCache' = EmptyMap
          /\ fileStatsCache' = EmptyMap]_vars

\* the manual sets after toggleExclude has been applied to each path of the list,
\* one call after the other
RECURSIVE OneAfterTheOther(_, _, _)
OneAfterTheOther(inc, exc, fullPaths) ==
    IF fullPaths = <<>> THEN [inc |-> inc, exc |-> exc]
    ELSE LET before == OneAfterTheOther(inc, exc,
                           SubSeq(fullPaths, 1, Len(fullPaths) - 1))
         IN  toggleOne(fs, autoExcludes, before.inc, before.exc,
                       fullPaths[Len(fullPaths)])

\* C21: toggleExcludeMultiple(paths) leaves manualIncludes and manualExcludes as
\* toggleExclude applied to each path in list order leaves them, writes the session
\* state once, with these sets, and fires onDidChange once, however many paths are
\* given.
C21_BatchIsSequentialToggle ==
    [][\A ps \in PathLists :
          ToggleExcludeMultiple(ps) =>
              LET each == OneAfterTheOther(manualIncludes, manualExcludes, ps)
              IN  /\ manualIncludes' = each.inc
                  /\ manualExcludes' = each.exc
                  /\ workspaceState' = SessionState(each.inc, each.exc, partialIncludes)
                  /\ log'.saves = 1
                  /\ log'.changes = 1]_vars

\* a batch of a directory and a file below it has run: one write, one onDidChange,
\* the nodes of two parents
C21_Witness ==
    /\ log.saves = 1 /\ log.changes = 1
    /\ Len(log.nodes) = 2
    /\ WithSep(Pkg) \in manualExcludes
    /\ Plain(Readme) \in manualIncludes
    /\ workspaceState = SessionState(manualIncludes, manualExcludes, partialIncludes)

\* C22: generateReport returns a complete report when included files cannot be
\* read: every file that is not effectively excluded has its one block, the block of
\* an unreadable file carries '[Unable to read file content]', and the block of a
\* readable file carries its lines.
C22_UnreadableFileGetsPlaceholder ==
    ret.kind = "report" =>
        \A f \in TreePaths :
            (fs[f] = "file" /\ ~isPathEffectivelyExcluded(f)) =>
                /\ Cardinality(BlocksOf(f)) = 1
                /\ \A i \in BlocksOf(f) :
                      IF extname(basename(f)) \in config.binaryFileExtensions
                      THEN ret.blocks[i].content.kind = "binary"
                      ELSE IF f \in unreadable
                           THEN ret.blocks[i].content = UnableToRead
                           ELSE /\ ret.blocks[i].content.kind = "lines"
                                /\ Len(ret.blocks[i].content.lines) > 0

\* a report with the placeholder for build, which comes first, and for the selected
\* lines of readme.md, and with the lines of other.md
C22_Witness ==
    /\ ret.kind = "report"
    /\ unreadable = {Readme, Build}
    /\ HasNonEmptyPartial(Readme)
    /\ \E i \in BlocksOf(Build) : ret.blocks[i].content = UnableToRead
    /\ \E i \in BlocksOf(Readme) :
          ret.blocks[i].content = UnableToRead /\ Len(ret.blocks[i].lines) > 0
    /\ \E i \in BlocksOf(Other) : ret.blocks[i].content.kind = "lines"

\* C23: with no workspace open generateReport returns 'No workspace folder opened',
\* and generateReport, resetExclusions and a call of recalculateAutoExclusions leave
\* the rule sets, the partial selections, the caches and the persisted state as
\* they are; the call of recalculateAutoExclusions returns at once.
C23_NoWorkspaceNeutral ==
    /\ [][(GenerateReportBegin /\ ~workspaceOpen) =>
              /\ ret'.kind = "message"
              /\ ret'.text = "No workspace folder opened"
              /\ UNCHANGED core]_vars
    /\ [][(ResetExclusions /\ ~workspaceOpen) => UNCHANGED core]_vars
    /\ [][\A cfg \in RebuildConfigs :
              (OnDidChangeConfigurationBegin(cfg) /\ ~workspaceOpen) =>
                  /\ UNCHANGED <<autoExcludes, manualIncludes, manualExcludes,
                                 partialIncludes, hasIncludesCache, hasPartialsCache,
                                 fileStatsCache, workspaceState>>
                  /\ rebuilds'[Len(rebuilds')].stage = "returned"]_vars

\* the folder has been closed with rules, selections and cache entries in place,
\* and a report has been asked for
C23_Witness ==
    /\ ~workspaceOpen
    /\ ret = NoWorkspace
    /\ autoExcludes # {} /\ manualIncludes # {} /\ partialIncludes # EmptyMap
    /\ hasIncludesCache # EmptyMap
    /\ workspaceState.defined

\* C24: autoExcludes is consulted only when no path on p's ancestor chain is in a
\* manual set: then p is effectively excluded exactly when p or an ancestor is in
\* autoExcludes, and otherwise the verdict is the one the manual sets give without
\* autoExcludes.  Hence below a manually included directory D every path without a
\* nearer manual rule is effectively included, also a path that is in autoExcludes.
C24_AutoRulesOnlyWithoutManualRule ==
    /\ \A p \in Paths :
          IF \E q \in Chain(p) : HasManualRule(q)
          THEN isPathEffectivelyExcluded(p)
                   = EffectivelyExcluded({}, manualIncludes, manualExcludes, p)
          ELSE isPathEffectivelyExcluded(p)
                   <=> \E q \in Chain(p) : HasEither(autoExcludes, q)
    /\ \A D, p \in Paths :
          ( /\ fs[D] = "dir" /\ HasEither(manualIncludes, D) /\ Below(p, D)
            /\ \A q \in Chain(p) : Below(q, D) => ~HasManualRule(q) )
          => ~isPathEffectivelyExcluded(p)

\* pkg is included by hand; docs and build below it are in autoExcludes, have no
\* manual rule, and are effectively included with everything below them
C24_Witness ==
    /\ WithSep(Pkg) \in manualIncludes
    /\ WithSep(Docs) \in autoExcludes /\ HasEither(autoExcludes, Build)
    /\ \A p \in {Docs, Build, Readme, Other} : ~HasManualRule(p)
    /\ \A p \in {Docs, Build, Readme, Other} : ~isPathEffectivelyExcluded(p)


\* C25: toggleExcludeMultiple(paths) with pairwise-distinct paths negates the
\* effective-exclusion verdict of every path of the list, a directory listed together
\* with one of its descendants included.
C25_BatchNegatesEveryVerdict ==
    [][\A ps \in PathLists :
          ToggleExcludeMultiple(ps) =>
              \A i \in 1..Len(ps) :
                  EffectivelyExcluded(autoExcludes', manualIncludes', manualExcludes',
                                      ps[i])
                      = ~isPathEffectivelyExcluded(ps[i])]_vars

\* two lists hold the same paths
SamePaths(ps, qs) ==
    /\ Len(ps) = Len(qs)
    /\ {ps[i] : i \in 1..Len(ps)} = {qs[i] : i \in 1..Len(qs)}

\* C26: the manual sets left by toggleExcludeMultiple(paths) are the ones left by
\* the call with any other listing of the same paths.
C26_BatchOrderIrrelevant ==
    [][\A ps \in PathLists :
          ToggleExcludeMultiple(ps) =>
              \A qs \in PathLists :
                  SamePaths(ps, qs) =>
                      LET other == toggleEach(fs, autoExcludes, manualIncludes,
                                              manualExcludes, qs)
                      IN  /\ manualIncludes' = other.inc
                          /\ manualExcludes' = other.exc]_vars

\* C27: every NodeState fired through onDidUpdateNodes by the last command carries
\* in `excluded` the value of isPathVisuallyExcluded(path) computed from the rule
\* sets the command left, with no cache entry from before the command.
C27_NodeStatesAreFresh ==
    \A i \in 1..Len(log.nodes) :
        \A j \in 1..Len(log.nodes[i]) :
            log.nodes[i][j].excluded
                = VisuallyExcludedWith(fs, autoExcludes, manualIncludes, manualExcludes,
                                       partialIncludes, EmptyMap, EmptyMap,
                                       log.nodes[i][j].path)


\* C28: a report generated while a rebuild of autoExcludes is waiting for its
\* searches has no block for a file that the set held before the rebuild cleared it
\* and that the rebuild, made for the configuration and the tree as they are, puts
\* back.
C28_RebuildNotObserved ==
    (/\ ret.kind = "report" /\ ret.alone
     /\ Len(rebuilds) = 1
     /\ rebuilds[1].cfg = config
     /\ rebuilds[1].before = recalculateAutoExclusions(fs, config))
        => \A f \in TreePaths :
               EffectivelyExcluded(rebuilds[1].before, manualIncludes, manualExcludes, f)
                   => BlocksOf(f) = {}

\* no timer is pending and no call of recalculateAutoExclusions is in flight
Settled == rebuilds = <<>> /\ DOMAIN timers = {}

\* C29: when every rebuild has finished and no file event waits for its timer,
\* overlapping rebuilds included, autoExcludes is the set the present configuration
\* denotes on the present tree.
C29_OverlappingRebuildsSettle ==
    Settled => autoExcludes = recalculateAutoExclusions(fs, config)

\* the last handler was the continuation of a finished rebuild, which fired
\* onDidChange, and nothing is left to do
Refreshed == Settled /\ log.changes = 1

\* C30: a configuration change begins its rebuild within the handler and leaves the
\* debounce timer alone; a timer that runs begins a rebuild; onDidChange is fired
\* when, and only when, a rebuild has completed and its caller goes on; and unless
\* events keep arriving for ever, every pending timer and every rebuild in flight
\* leads to a state where all rebuilds have completed and onDidChange has been fired
\* by the last of them.  dispose() is not called in these runs.
C30_EventsLeadToRebuildAndChange ==
    /\ [][\A cfg \in RebuildConfigs :
             OnDidChangeConfigurationBegin(cfg) =>
                 /\ Len(rebuilds') = Len(rebuilds) + 1
                 /\ rebuilds'[Len(rebuilds')].cfg = cfg
                 /\ rebuilds'[Len(rebuilds')].caller = "configuration"
                 /\ timers' = timers]_vars
    /\ [][Cardinality(DOMAIN timers') < Cardinality(DOMAIN timers)
             => Len(rebuilds') = Len(rebuilds) + 1]_vars
    /\ [][/\ Len(rebuilds') < Len(rebuilds) => log'.changes = 1
          /\ (log' # log /\ log'.changes = 1) => Len(rebuilds') < Len(rebuilds)]_vars
    /\ ([]<><<Arrival>>_vars \/ (~Settled ~> Refreshed))

\* a file event was debounced, the timer callback rebuilt the set for the tree
\* without build, and the refresh that followed is the last thing that happened
C30_Witness ==
    /\ Refreshed
    /\ burst.events >= 1 /\ burst.rebuilds = 1 /\ burst.refreshes >= 1
    /\ fs[Build] = "none"
    /\ config = CfgBuild
    /\ autoExcludes = recalculateAutoExclusions(fs, config)


\* C31: a path mapped in partialIncludes has at least one range, so that
\* hasPartialIncludes(f) holds only for a file with a non-empty selection and the
\* has-partial-beneath test of a directory holds only when such a file lies below it.
C31_PartialOnlyWithRanges ==
    /\ \A f \in TreePaths : hasPartialIncludes(f) => Len(partialIncludes[f]) > 0
    /\ \A d \in TreePaths :
           folderContainsPartialIncludes(EmptyMap, d) =>
               \E f \in TreePaths :
                   /\ StartsWithSep(Plain(f), d)
                   /\ MapHas(partialIncludes, f)
                   /\ Len(partialIncludes[f]) > 0


\* C34: for every list R of ranges with start <= end, mergeRanges(R) is a list of
\* ranges with start <= end, ascending by start, in which a range begins at least
\* two lines after the one before it ends (disjoint and not adjacent), and which
\* covers the line numbers of R and no other; ranges that touch are fused, and the
\* empty list gives the empty list.
C34_MergeSortedDisjointSameLines ==
    ret.kind = "merged" =>
        /\ \A i \in 1..Len(ret.value) : ret.value[i].start <= ret.value[i].end
        /\ \A i \in 1..Len(ret.value) - 1 :
               ret.value[i].end + 1 < ret.value[i + 1].start
        /\ LinesOfAll(ret.value) = LinesOfAll(ret.argument)
        /\ ret.argument = <<>> => ret.value = <<>>
        /\ ret.argument = << [start |-> 1, end |-> 2], [start |-> 3, end |-> 4] >>
               => ret.value = << [start |-> 1, end |-> 4] >>

\* three ranges given out of order: the first two touch and are fused although the
\* later one comes first, the third stays apart; the range object that opens the
\* fused range has been widened in the argument
C34_Witness ==
    /\ ret.kind = "merged"
    /\ ret.argument = << [start |-> 2, end |-> 2], [start |-> 1, end |-> 1],
                         [start |-> 4, end |-> 4] >>
    /\ ret.value = << [start |-> 1, end |-> 2], [start |-> 4, end |-> 4] >>
    /\ ranges = << [start |-> 2, end |-> 2], [start |-> 1, end |-> 2],
                   [start |-> 4, end |-> 4] >>

\* C35: a rebuild made while autoExcludeEnabled is false leaves in autoExcludes
\* nothing but the matches of the binary extensions, and nothing at all when
\* excludeBinaryFiles is off: no configured pattern and no ignore-file line
\* contributes a path.
C35_DisabledAddsNoPatternPaths ==
    [][(autoExcludes' # autoExcludes /\ ~config'.autoExcludeEnabled) =>
           autoExcludes' \subseteq
               (IF config'.excludeBinaryFiles
                THEN Marked(fs', BinaryFiles(fs', config')) ELSE {})]_vars


\* C36: toggleExclude(p) for a path p with no file-system entry leaves p, without
\* trailing separator, in exactly one manual set and p with the separator in none;
\* every entry of the two sets other than p's own stays, the rules below p included;
\* and the effective verdict of p is the opposite of what it was.
C36_MissingPathToggledAsFile ==
    [][\A p \in MissingTogglePaths :
          (fs[p] = "none" /\ ToggleExclude(p)) =>
              LET own == {Plain(p), WithSep(p)}
              IN  /\ (Plain(p) \in manualIncludes') # (Plain(p) \in manualExcludes')
                  /\ WithSep(p) \notin manualIncludes' \cup manualExcludes'
                  /\ manualIncludes' \ own = manualIncludes \ own
                  /\ manualExcludes' \ own = manualExcludes \ own
                  /\ EffectivelyExcluded(autoExcludes', manualIncludes',
                                         manualExcludes', p)
                         = ~isPathEffectivelyExcluded(p)]_vars

\* docs is gone and has been toggled to excluded: it is stored as a file would be,
\* and the include of readme.md below it, which a directory would have purged, is
\* still there
C36_Witness ==
    /\ fs[Docs] = "none"
    /\ Plain(Docs) \in manualExcludes
    /\ WithSep(Docs) \notin manualExcludes
    /\ Plain(Readme) \in manualIncludes


\* the entry comes from a path inside the directory of the other entry
ListedBelow(e, d) == d.dir /\ Len(d.rel) < Len(e.rel) /\ SubSeq(e.rel, 1, Len(d.rel)) = d.rel

\* two entries of the same directory
ListedTogether(e, f) ==
    /\ Len(e.rel) = Len(f.rel)
    /\ SubSeq(e.rel, 1, Len(e.rel) - 1) = SubSeq(f.rel, 1, Len(f.rel) - 1)

\* the structure listing is a pre-order, directories first and names ascending
PreOrder(listing) ==
    /\ \A i, j \in 1..Len(listing) :
           (i < j /\ ListedTogether(listing[i], listing[j])) =>
               \/ listing[i].dir /\ ~listing[j].dir
               \/ /\ listing[i].dir = listing[j].dir
                  /\ NameRank(listing[i].rel[Len(listing[i].rel)])
                         < NameRank(listing[j].rel[Len(listing[j].rel)])
    /\ \A i, j \in 1..Len(listing) : ListedBelow(listing[i], listing[j]) => j < i
    /\ \A i, j, k \in 1..Len(listing) :
           (i < k /\ k < j /\ ListedBelow(listing[j], listing[i]))
               => ListedBelow(listing[k], listing[i])
    /\ \A i \in 1..Len(listing) :
           \A n \in 1..Len(listing[i].rel) - 1 :
               \E j \in 1..Len(listing) :
                   listing[j] = [rel |-> SubSeq(listing[i].rel, 1, n), dir |-> TRUE]

\* C38: the structure listing of a report is a pre-order traversal: among the
\* entries of one directory the directories come first and the names ascend within
\* each group, a listed directory comes before everything listed from inside it and
\* is followed by it at once, every ancestor directory of a listed path is listed;
\* and the listing of a report generated for one snapshot of the rule sets and the
\* tree is the listing a report generated again for them has.
C38_ListingIsSortedPreOrder ==
    /\ ret.kind = "report" => PreOrder(ret.structure)
    /\ (ret.kind = "report" /\ ret.alone) => ret.structure = generateReport.structure

\* the whole tree listed: pkg/, its directory docs/ with its two files, then the
\* file build, whose name comes before docs
C38_Witness ==
    /\ ret.kind = "report" /\ ret.alone
    /\ ret.structure
           = << ListingEntry(Pkg, TRUE), ListingEntry(Docs, TRUE),
                ListingEntry(Other, FALSE), ListingEntry(Readme, FALSE),
                ListingEntry(Build, FALSE) >>
    /\ hasIncludesCache # EmptyMap


\* the path a content block of the report stands for
BlockPath(block) == workspaceRoot \o block.rel

\* the lines the report emits for a file in the present selection and disk
\* content: the lines of its content block, one line for a placeholder
ReportedLines(fullPath) ==
    LET content == FileBlock(fullPath).content
    IN  IF content.kind = "lines" THEN Len(content.lines) ELSE 1

LineStatsKinds == {"selectionLines", "folderLines", "fileLines"}

\* C32: the lines the statistics attribute to a file (getSelectionStats,
\* getFolderStats, getFileStatsWithPartial / getStatsForPath) are as many as the
\* lines the report emits for that file for the same selection and disk content:
\* the lines of the stored ranges clipped to the file for a partial selection, the
\* lines of the file otherwise.
C32_StatsLinesAreReportLines ==
    ret.kind \in LineStatsKinds =>
        \A pair \in ret.counted : pair[2] = ReportedLines(pair[1])

\* C33: the content of a range-restricted block of a report is the lines whose
\* 1-based number is in the union of the stored ranges and in 1..L, L the lines of
\* the file: each of them once, in ascending order, and no number outside 1..L,
\* also when a range ends or starts past the end of the file.
C33_RangeContentIsClippedUnion ==
    ret.kind = "report" =>
        \A i \in 1..Len(ret.blocks) :
            LET block == ret.blocks[i]
                emitted == block.content.lines
                lineCount == LineCount(BlockPath(block))
            IN  (block.lines # <<>> /\ block.content.kind = "lines") =>
                    /\ \A k \in 1..Len(emitted) : emitted[k] \in 1..lineCount
                    /\ \A k \in 1..Len(emitted) - 1 : emitted[k] < emitted[k + 1]
                    /\ {emitted[k] : k \in 1..Len(emitted)}
                           = LinesOfAll(block.lines) \cap 1..lineCount

\* a report with a block of readme.md whose stored range begins inside the file
\* and ends past its last line: the block holds the lines up to the last one
C33_Witness ==
    /\ ret.kind = "report"
    /\ \E i \in BlocksOf(Readme) :
           /\ ret.blocks[i].content.kind = "lines"
           /\ ret.blocks[i].content.lines # <<>>
           /\ \E k \in 1..Len(ret.blocks[i].lines) :
                  /\ ret.blocks[i].lines[k].start <= LineCount(Readme)
                  /\ ret.blocks[i].lines[k].end > LineCount(Readme)

\* C37: in the statistics of the whole workspace a file that cannot be read
\* contributes no lines, with or without a partial selection, and every other
\* file of an included selection, in the same directory or another, is counted.
C37_ReadFailureIsLocal ==
    ret.kind = "selectionLines" =>
        \A f \in StatsFiles(workspaceRoot) :
            IF f \in unreadable
            THEN \A pair \in ret.counted : pair[1] = f => pair[2] = 0
            ELSE \E pair \in ret.counted : pair[1] = f

====
